---- MODULE Spec2Model ----
(***************************************************************************)
(* Model of the TAF (Taffy) query path of jbrowse-plugin-mafviewer:        *)
(* the .tai index reader, the index lookup, the chunk slice, the           *)
(* row-instruction parser and first-line rewrite, the block                *)
(* reconstructor and the overlap filter of getFeatures.                    *)
(*                                                                         *)
(* Strings of the program are sequences of one-character strings, so that  *)
(* splitting, slicing and per-character encoding are computed, not assumed. *)
(***************************************************************************)
EXTENDS Integers, Sequences, FiniteSets, TLC

VARIABLES
  \* ---- parseTafBlocks / getFeatures (BgzipTaffyAdapter.ts) ----
  rle,              \* runLengthEncodeBases, from readHeader
  pBlock,           \* <<>> (undefined) or <<block>>
  currentBlock,     \* <<>> (undefined) or <<block>>
  columns,          \* columns accumulated for currentBlock
  isFirstCoordLine,
  features,         \* the array parseTafBlocks returns (the cached value)
  lineNum,
  pc,               \* position of the query: "parsing", "parsed", "delivered"
  query,            \* [start, end] of the region being delivered
  delivered,        \* what observer.next received, in order
  fromCache,        \* TRUE when the delivered features came from a cache hit
  \* ---- filterFirstLineInstructions (rowInstructions.ts) ----
  fltIn, fltOut, fltDone,
  \* ---- readTaiFile ----
  taiText,          \* the lines of the .tai file read so far
  entries, lastChr, lastChrStart, lastRawVirtualOffset,
  \* the same file with every relative row rewritten to absolute values
  absText, absEntries, absLastChr, absLastChrStart, absLastRaw,
  \* ---- getLines / cache fill ----
  records,          \* index entries of the queried refName
  layout,           \* decompressed lines of each bgzf block of the file
  qpc,              \* "idle", "looked", "sliced", "done"
  qregion,          \* << [start, end] >> of the three queries of a split
  looked,           \* per query: [firstEntry, nextEntry]
  buffers,          \* per query: the decompressed buffer
  slices,           \* per query: [startOffset, endOffset, lines]
  yielded,          \* per query: the features delivered
  \* ---- encodeSequence / decodeSequence (sequenceEncoding.ts) ----
  cdIn,             \* the string handed to encodeSequence
  cdEnc,            \* <<>> or <<the EncodedSequence>>
  cdOut,            \* <<>> or <<the string decodeSequence returned>>
  cdpc,             \* "in", "encoded", "decoded"
  \* ---- selectReferenceSequence (parseAssemblyName.ts) ----
  selAlignments, selArgs, selResult, selpc,
  \* ---- processFeaturesToFasta (fastaUtils.ts) ----
  faFeature, faSamples, faOpts, faRows, faIns, faNext, fapc, faOut,
  \* ---- BgzipTaffyAdapter: setupP, chunk cache and concurrent queries ----
  setupP, setups, cache, fills, queries,
  \* ---- BigMafAdapter.getFeatures over the records of its BigBed sub-adapter ----
  bmVersion, bmUpstream, bmEmitted, bmBuffer, bmOut, bmpc,
  \* ---- SpecCache: sequential getFeatures calls on the chunk cache ----
  ccRecords, ccStore, ccFills, ccAsked,
  \* ---- SpecTabix: MafTabixAdapter.getFeatures ----
  mtRecords, mtConf, mtNext, mtFirstFound, mtOut, mtpc,
  \* ---- SpecNamed: a query by refName on a file of two sequences ----
  nmFile, nmIndex, nmQuery, nmPair, nmFeatures, nmOut, nmpc,
  \* ---- SpecReplay: parseTafBlocks with the lines it has read ----
  rpRle, rpLines, rpState, rppc,
  \* ---- SpecEstablish: parseCoordinatesAndEstablishBlock on row objects ----
  esHeap, esCopyOf, esPrev, esRows, esIns, esNext, esLog, espc

parseVars == <<rle, pBlock, currentBlock, columns, isFirstCoordLine, features,
               lineNum, pc, query, delivered, fromCache>>
fltVars == <<fltIn, fltOut, fltDone>>
taiVars == <<taiText, entries, lastChr, lastChrStart, lastRawVirtualOffset,
             absText, absEntries, absLastChr, absLastChrStart, absLastRaw>>
qVars == <<records, layout, qpc, qregion, looked, buffers, slices, yielded>>
codecVars == <<cdIn, cdEnc, cdOut, cdpc>>
refVars == <<selAlignments, selArgs, selResult, selpc>>
fastaVars == <<faFeature, faSamples, faOpts, faRows, faIns, faNext, fapc,
    faOut>>
adapterVars == <<setupP, setups, cache, fills, queries>>
streamVars == <<bmVersion, bmUpstream, bmEmitted, bmBuffer, bmOut, bmpc>>
chunkVars == <<ccRecords, ccStore, ccFills, ccAsked>>
tabixVars == <<mtRecords, mtConf, mtNext, mtFirstFound, mtOut,
    mtpc>>
namedVars == <<nmFile, nmIndex, nmQuery, nmPair, nmFeatures, nmOut, nmpc>>
replayVars == <<rpRle, rpLines, rpState, rppc>>
estVars == <<esHeap, esCopyOf, esPrev, esRows, esIns, esNext, esLog, espc>>
tafVars == <<parseVars, fltVars, taiVars, qVars>>
\* for each later group, the other later groups
notCodec == <<refVars, fastaVars, adapterVars, streamVars, chunkVars, tabixVars, namedVars, replayVars, estVars>>
notRef == <<codecVars, fastaVars, adapterVars, streamVars, chunkVars, tabixVars, namedVars, replayVars, estVars>>
notFasta == <<codecVars, refVars, adapterVars, streamVars, chunkVars, tabixVars, namedVars, replayVars, estVars>>
notAdapter == <<codecVars, refVars, fastaVars, streamVars, chunkVars, tabixVars, namedVars, replayVars, estVars>>
notStream == <<codecVars, refVars, fastaVars, adapterVars, chunkVars, tabixVars, namedVars, replayVars, estVars>>
notChunk == <<codecVars, refVars, fastaVars, adapterVars, streamVars, tabixVars, namedVars, replayVars, estVars>>
notTabix == <<codecVars, refVars, fastaVars, adapterVars, streamVars, chunkVars, namedVars, replayVars, estVars>>
notNamed == <<codecVars, refVars, fastaVars, adapterVars, streamVars, chunkVars, tabixVars, replayVars, estVars>>
notReplay == <<codecVars, refVars, fastaVars, adapterVars, streamVars, chunkVars, tabixVars, namedVars, estVars>>
notEst == <<codecVars, refVars, fastaVars, adapterVars, streamVars, chunkVars, tabixVars, namedVars, replayVars>>
laterVars == <<codecVars, refVars, fastaVars, adapterVars, streamVars, chunkVars, tabixVars, namedVars, replayVars, estVars>>
vars == <<parseVars, fltVars, taiVars, qVars, laterVars>>

----------------------------------------------------------------------------
(* Bounds *)

MaxLines == 3        \* lines of a decoded slice
MaxIns == 2          \* instructions of one coordinate line (filter check)
MaxTaiLines == 3     \* rows of a .tai file
MaxFileLines == 3    \* coordinate lines of the TAF file of a split query

----------------------------------------------------------------------------
(* Generic helpers *)

Min(a, b) == IF a < b THEN a ELSE b
Max(a, b) == IF a > b THEN a ELSE b

Range(s) == {s[i] : i \in 1..Len(s)}

\* s.slice(a, b) with 0-based a, b already clamped into 0..Len(s)
Slice(s, a, b) == IF b <= a THEN <<>> ELSE SubSeq(s, a + 1, b)

\* s.indexOf(c), 0-based, -1 when absent
RECURSIVE IndexFrom(_, _, _)
IndexFrom(s, c, i) ==
  IF i > Len(s) THEN 0 - 1
  ELSE IF s[i] = c THEN i - 1
  ELSE IndexFrom(s, c, i + 1)
IndexOf(s, c) == IndexFrom(s, c, 1)

\* s.split(c).at(-1): the part after the last c
RECURSIVE LastPart(_, _)
LastPart(s, c) ==
  LET k == IndexOf(s, c) IN
  IF k = 0 - 1 THEN s ELSE LastPart(Slice(s, k + 1, Len(s)), c)

DigitVal(c) ==
  CASE c = "0" -> 0 [] c = "1" -> 1 [] c = "2" -> 2 [] c = "3" -> 3
    [] c = "4" -> 4 [] c = "5" -> 5 [] c = "6" -> 6 [] c = "7" -> 7
    [] c = "8" -> 8 [] c = "9" -> 9

IsDigits(s) == Len(s) > 0 /\ \A i \in 1..Len(s) :
  s[i] \in {"0", "1", "2", "3", "4", "5", "6", "7", "8", "9"}

\* the value of a decimal token (unary plus, parseInt(_, 10))
RECURSIVE ToNumber(_)
ToNumber(s) ==
  IF Len(s) = 0 THEN 0
  ELSE 10 * ToNumber(SubSeq(s, 1, Len(s) - 1)) + DigitVal(s[Len(s)])

----------------------------------------------------------------------------
(* util/sequenceEncoding.ts *)

ENCODE_MAP(c) ==
  CASE c = "a" -> 0 [] c = "c" -> 1 [] c = "g" -> 2 [] c = "t" -> 3
    [] c = "n" -> 4 [] c = "-" -> 5 [] c = " " -> 6 [] c = "A" -> 7
    [] c = "C" -> 8 [] c = "G" -> 9 [] c = "T" -> 10 [] c = "N" -> 11
    [] OTHER -> 12

\* encodeSequence: two 4-bit codes per byte, first base in the high nibble
encodeSequence(seq) ==
  [data |-> [b \in 1..((Len(seq) + 1) \div 2) |->
               ENCODE_MAP(seq[2 * b - 1]) * 16
               + (IF 2 * b <= Len(seq) THEN ENCODE_MAP(seq[2 * b]) ELSE 0)],
   length |-> Len(seq)]

\* getBaseCode: the 4-bit code at 0-based index i
getBaseCode(enc, i) ==
  IF i < 0 \/ i >= enc.length THEN 12
  ELSE LET byte == enc.data[(i \div 2) + 1]
       IN IF i % 2 = 1 THEN byte % 16 ELSE byte \div 16

----------------------------------------------------------------------------
(* util/parseAssemblyName.ts *)

parseAssemblyAndChrSimple(organismChr) ==
  LET dotIndex == IndexOf(organismChr, ".") IN
  IF dotIndex = 0 - 1
    THEN [assemblyName |-> organismChr, chr |-> <<>>]
    ELSE [assemblyName |-> Slice(organismChr, 0, dotIndex),
          chr |-> Slice(organismChr, dotIndex + 1, Len(organismChr))]

----------------------------------------------------------------------------
(* BgzipTaffyAdapter/util.ts *)

\* countNonGapBases: characters that are neither '-' nor ' '
RECURSIVE countNonGapBases(_)
countNonGapBases(s) ==
  IF Len(s) = 0 THEN 0
  ELSE (IF s[1] = "-" \/ s[1] = " " THEN 0 ELSE 1) + countNonGapBases(Tail(s))

----------------------------------------------------------------------------
(* BgzipTaffyAdapter/rowInstructions.ts *)

NaN == 0 - 1                       \* stands for the NaN of a non-numeric token
Undefined == <<"undefined">>       \* stands for a token read past the end

Tok(ret, i) == IF i <= Len(ret) THEN ret[i] ELSE Undefined

\* unary plus applied to a token
Num(t) == IF IsDigits(t) THEN ToNumber(t) ELSE IF t = <<>> THEN 0 ELSE NaN

Instruction(type, row, sequenceName, start, strand, sequenceLength, gapLength, gapSubstring) ==
  [type |-> type, row |-> row, sequenceName |-> sequenceName, start |-> start,
   strand |-> strand, sequenceLength |-> sequenceLength,
   gapLength |-> gapLength, gapSubstring |-> gapSubstring]

\* parseRowInstructions: ret is meta.split(' '); i is the 1-based cursor
RECURSIVE parseRowInstructionsFrom(_, _)
parseRowInstructionsFrom(ret, i) ==
  IF i > Len(ret) THEN <<>>
  ELSE
    LET type == ret[i] IN
    IF type = <<"i">> \/ type = <<"s">> THEN
      <<Instruction(type[1], Num(Tok(ret, i + 1)), Tok(ret, i + 2),
                    Num(Tok(ret, i + 3)),
                    IF Tok(ret, i + 4) = <<"-">> THEN 0 - 1 ELSE 1,
                    Num(Tok(ret, i + 5)), 0, <<>>)>>
        \o parseRowInstructionsFrom(ret, i + 6)
    ELSE IF type = <<"d">> THEN
      <<Instruction("d", Num(Tok(ret, i + 1)), <<>>, 0, 0, 0, 0, <<>>)>>
        \o parseRowInstructionsFrom(ret, i + 2)
    ELSE IF type = <<"g">> THEN
      <<Instruction("g", Num(Tok(ret, i + 1)), <<>>, 0, 0, 0,
                    Num(Tok(ret, i + 2)), <<>>)>>
        \o parseRowInstructionsFrom(ret, i + 3)
    ELSE IF type = <<"G">> THEN
      <<Instruction("G", Num(Tok(ret, i + 1)), <<>>, 0, 0, 0, 0,
                    Tok(ret, i + 2))>>
        \o parseRowInstructionsFrom(ret, i + 3)
    ELSE parseRowInstructionsFrom(ret, i + 1)

parseRowInstructions(ret) == parseRowInstructionsFrom(ret, 1)

\* a map step that leaves a substitute instruction as it is
KeepSubstitute(ins) == ins

\* the .map() of filterFirstLineInstructions: 's' becomes 'i', 'i' is kept
ConvertToInsert(ins) ==
  IF ins.type = "s"
    THEN Instruction("i", ins.row, ins.sequenceName, ins.start, ins.strand,
                     ins.sequenceLength, 0, <<>>)
    ELSE ins

\* the .filter() of filterFirstLineInstructions
KeepOnFirstLine(ins) == ins.type = "i" \/ ins.type = "s"

filterFirstLineInstructions(instructions) ==
  LET kept == SelectSeq(instructions, KeepOnFirstLine)
  IN [k \in 1..Len(kept) |-> ConvertToInsert(kept[k])]

----------------------------------------------------------------------------
(* BgzipTaffyAdapter.ts: the block reconstructor *)

Row(sequenceName, start, strand, sequenceLength, bases, length) ==
  [sequenceName |-> sequenceName, start |-> start, strand |-> strand,
   sequenceLength |-> sequenceLength, bases |-> bases, length |-> length]

\* rows.push(r): the row is appended whatever the index
SpliceInAtEnd(rows, at, r) == Append(rows, r)

\* rows.splice(at, 0, r)
SpliceIn(rows, at, r) ==
  LET k == Min(Max(at, 0), Len(rows))
  IN SubSeq(rows, 1, k) \o <<r>> \o SubSeq(rows, k + 1, Len(rows))

\* rows.splice(at, 1)
SpliceOut(rows, at) ==
  SubSeq(rows, 1, at) \o SubSeq(rows, at + 2, Len(rows))

\* rows[at] is defined
HasRow(rows, at) == at >= 0 /\ at < Len(rows)

\* one iteration of the instruction loop of parseCoordinatesAndEstablishBlock
ApplyInstruction(rows, ins) ==
  IF ins.type = "i" THEN
    SpliceIn(rows, ins.row,
             Row(ins.sequenceName, ins.start, ins.strand, ins.sequenceLength,
                 <<>>, 0))
  ELSE IF ~HasRow(rows, ins.row) THEN rows
  ELSE IF ins.type = "s" THEN
    [rows EXCEPT ![ins.row + 1] =
       Row(ins.sequenceName, ins.start, ins.strand, ins.sequenceLength,
           @.bases, @.length)]
  ELSE IF ins.type = "d" THEN SpliceOut(rows, ins.row)
  ELSE IF ins.type = "g" THEN
    [rows EXCEPT ![ins.row + 1].start = @ + ins.gapLength]
  ELSE IF ins.type = "G" THEN
    [rows EXCEPT ![ins.row + 1].start = @ + Len(ins.gapSubstring)]
  ELSE rows

RECURSIVE ApplyInstructions(_, _)
ApplyInstructions(rows, instructions) ==
  IF Len(instructions) = 0 THEN rows
  ELSE ApplyInstructions(ApplyInstruction(rows, Head(instructions)),
                         Tail(instructions))

\* the rows copied from the previous block: start continues from previous end
CopyRows(pb) ==
  IF Len(pb) = 0 THEN <<>>
  ELSE [j \in 1..Len(pb[1].rows) |->
          LET pRow == pb[1].rows[j]
          IN Row(pRow.sequenceName, pRow.start + pRow.length, pRow.strand,
                 pRow.sequenceLength, <<>>, 0)]

parseCoordinatesAndEstablishBlock(pb, instructions) ==
  [rows |-> ApplyInstructions(CopyRows(pb), instructions), columnNumber |-> 0]

\* base.repeat(count)
RECURSIVE Repeat(_, _)
Repeat(base, count) == IF count <= 0 THEN <<>> ELSE base \o Repeat(base, count - 1)

\* the loop of parseBases over tokens[i], tokens[i + 1]
RECURSIVE ExpandRuns(_, _)
ExpandRuns(tokens, i) ==
  IF i > Len(tokens) THEN <<>>
  ELSE
    LET base == tokens[i]
        count == Num(Tok(tokens, i + 1))
    IN (IF count # NaN /\ Tok(tokens, i + 1) # <<>> /\ Len(base) = 1
          THEN Repeat(base, count) ELSE <<>>)
       \o ExpandRuns(tokens, i + 2)

\* tokens.join(' '): the text of the bases field
RECURSIVE JoinTokens(_)
JoinTokens(tokens) ==
  IF Len(tokens) = 0 THEN <<>>
  ELSE IF Len(tokens) = 1 THEN tokens[1]
  ELSE tokens[1] \o <<" ">> \o JoinTokens(Tail(tokens))

\* parseBases; the bases field is given as its space-separated tokens
parseBases(tokens, runLengthEncodeBases) ==
  IF runLengthEncodeBases THEN ExpandRuns(tokens, 1) ELSE JoinTokens(tokens)

\* col[j] ?? '-' (j 0-based)
BaseOfColumn(col, j) == IF j < Len(col) THEN col[j + 1] ELSE "-"

\* the number of characters of s other than '-' (the inner loop's length++)
RECURSIVE CountNotDash(_)
CountNotDash(s) ==
  IF Len(s) = 0 THEN 0
  ELSE (IF s[1] # "-" THEN 1 ELSE 0) + CountNotDash(Tail(s))

\* a transpose that skips a column with no character for the row
RECURSIVE TransposedRowNoPad(_, _)
TransposedRowNoPad(cols, j) ==
  IF Len(cols) = 0 THEN <<>>
  ELSE (IF j < Len(cols[1]) THEN <<cols[1][j + 1]>> ELSE <<>>)
       \o TransposedRowNoPad(Tail(cols), j)

\* the bases of row j (0-based) after the transpose: bases += col[j] ?? '-'
TransposedRow(cols, j) == [i \in 1..Len(cols) |-> BaseOfColumn(cols[i], j)]

finalizeBlock(block, cols) ==
  [rows |-> [j \in 1..Len(block.rows) |->
               LET bases == TransposedRow(cols, j - 1)
               IN [block.rows[j] EXCEPT !.bases = bases,
                                        !.length = CountNotDash(bases)]],
   columnNumber |-> Len(cols)]

\* the record stored under alignments[assemblyName] for a row
OrganismRecord(row) ==
  [chr |-> parseAssemblyAndChrSimple(row.sequenceName).chr,
   start |-> row.start, srcSize |-> row.sequenceLength, strand |-> row.strand,
   seq |-> encodeSequence(row.bases)]

AssemblyOf(row) == parseAssemblyAndChrSimple(row.sequenceName).assemblyName

\* the index of the row whose record alignments[name] holds after the loop:
\* every row assigns alignments[assemblyName], so the last one stays
RowStoredFor(rows, name) ==
  CHOOSE j \in 1..Len(rows) :
    /\ AssemblyOf(rows[j]) = name
    /\ \A k \in (j + 1)..Len(rows) : AssemblyOf(rows[k]) # name

\* the alignments object built by blockToFeature
Alignments(rows) ==
  [name \in {AssemblyOf(rows[j]) : j \in 1..Len(rows)} |->
     OrganismRecord(rows[RowStoredFor(rows, name)])]

\* blockToFeature: <<>> for undefined, <<feature>> otherwise
blockToFeature(block) ==
  IF Len(block.rows) = 0 \/ block.columnNumber = 0 THEN <<>>
  ELSE
    LET row0 == block.rows[1]
        nonGapLength == countNonGapBases(row0.bases)
    IN <<[uniqueId |-> <<row0.start, nonGapLength>>,
          start |-> row0.start,
          end |-> row0.start + nonGapLength,
          strand |-> row0.strand,
          alignments |-> Alignments(block.rows),
          seq |-> encodeSequence(row0.bases),
          block |-> block]>>   \* block: the block the feature was made from

----------------------------------------------------------------------------
(* parseTafBlocks: the loop over the lines of the decoded slice.            *)
(* A line is given by what trim, indexOf(' ; ') and the ' @' cut leave of   *)
(* it: kind "skip" (blank or '#'), "coord" (has ' ; ') or "bases"; bases    *)
(* and ins are the space-separated tokens of the two fields.                *)

Line(kind, bases, ins) == [kind |-> kind, bases |-> bases, ins |-> ins]

ParserStart ==
  [pBlock |-> <<>>, currentBlock |-> <<>>, columns |-> <<>>,
   isFirstCoordLine |-> TRUE, features |-> <<>>, lineNum |-> 0]

\* the block that the next coordinate line starts from: the current block
\* replaces pBlock only when it has accumulated a column
FlushNeeded(st) == Len(st.currentBlock) > 0 /\ Len(st.columns) > 0

Flushed(st) == finalizeBlock(st.currentBlock[1], st.columns)

PushColumn(cols, bases) == IF Len(bases) > 0 THEN Append(cols, bases) ELSE cols

\* the instructions folded into the block of a coordinate line
foldedInstructions(first, ins) ==
  IF first THEN filterFirstLineInstructions(parseRowInstructions(ins))
  ELSE parseRowInstructions(ins)

\* one iteration of the for loop over lines
parseTafLine(st, line, runLengthEncodeBases) ==
  IF line.kind = "skip" THEN [st EXCEPT !.lineNum = @ + 1]
  ELSE IF line.kind = "coord" THEN
    LET pb == IF FlushNeeded(st) THEN <<Flushed(st)>> ELSE st.pBlock
        instructions == foldedInstructions(st.isFirstCoordLine, line.ins)
    IN [pBlock |-> pb,
        currentBlock |-> <<parseCoordinatesAndEstablishBlock(pb, instructions)>>,
        columns |-> PushColumn(<<>>, parseBases(line.bases, runLengthEncodeBases)),
        isFirstCoordLine |-> FALSE,
        features |-> IF FlushNeeded(st)
                       THEN st.features \o blockToFeature(Flushed(st))
                       ELSE st.features,
        lineNum |-> st.lineNum + 1]
  ELSE IF Len(st.currentBlock) > 0 THEN
    [st EXCEPT !.columns = PushColumn(@, parseBases(line.bases, runLengthEncodeBases)),
               !.lineNum = @ + 1]
  ELSE [st EXCEPT !.lineNum = @ + 1]

\* after the loop: finalize the last block; the value parseTafBlocks returns
parseTafEnd(st) ==
  IF FlushNeeded(st) THEN st.features \o blockToFeature(Flushed(st))
  ELSE st.features

RECURSIVE parseTafFold(_, _, _)
parseTafFold(st, lines, runLengthEncodeBases) ==
  IF Len(lines) = 0 THEN st
  ELSE parseTafFold(parseTafLine(st, Head(lines), runLengthEncodeBases),
                    Tail(lines), runLengthEncodeBases)

\* parseTafBlocks on a whole slice
parseTafBlocks(lines, runLengthEncodeBases) ==
  parseTafEnd(parseTafFold(ParserStart, lines, runLengthEncodeBases))

\* an overlap test that also takes a block ending at the query start
OverlapsInclusive(feat, q) == feat.end >= q.start /\ feat.start < q.end

\* the overlap test of getFeatures
Overlaps(feat, q) == feat.end > q.start /\ feat.start < q.end

\* the for loop of getFeatures: what observer.next receives, in order
deliverFeatures(feats, q) == SelectSeq(feats, LAMBDA feat : Overlaps(feat, q))

----------------------------------------------------------------------------
(* Inputs of the reconstructor *)

T(c) == <<c>>
HG1 == <<"h", ".", "1">>     \* assembly h, sequence 1
HG2 == <<"h", ".", "2">>     \* assembly h, sequence 2
MM1 == <<"m", ".", "1">>     \* assembly m, sequence 1

InsI(row, name, start, strand, size) ==
  <<T("i"), T(row), name, T(start), T(strand), T(size)>>
InsS(row, name, start, strand, size) ==
  <<T("s"), T(row), name, T(start), T(strand), T(size)>>

\* instruction fields of the coordinate lines a slice is drawn from
CoordFields ==
  { InsI("0", HG1, "1", "+", "9") \o InsI("1", MM1, "0", "-", "9"),
    InsS("0", HG2, "0", "+", "9"),
    InsS("1", HG2, "5", "+", "9"),
    <<T("g"), T("0"), T("1"), T("d"), T("1")>>,
    <<T("G"), T("0"), <<"A", "A">>, T("x")>> \o InsI("0", MM1, "2", "+", "9") }

\* bases fields, plain and run-length encoded
PlainBases == { <<<<"A", "-">>>>, <<<<"C", "A", "A">>>> }
RunBases == { <<T("A"), T("1"), T("-"), T("1")>>,
              <<T("C"), T("2"), T("A"), T("x"), T("A"), T("1")>>,
              <<T("A"), T("0")>> }
BasesFields(runs) == IF runs THEN RunBases ELSE PlainBases

LinesOf(runs) ==
  {Line("coord", b, i) : b \in BasesFields(runs), i \in CoordFields}
    \cup {Line("bases", b, <<>>) : b \in BasesFields(runs)}
    \cup {Line("skip", <<>>, <<>>)}

Region(a, b) == [start |-> a, end |-> b]
Queries == {Region(0, 1), Region(1, 3), Region(2, 6), Region(0, 6)}

----------------------------------------------------------------------------
(* Values of the variables a specification does not use *)

ParseIdle ==
  /\ rle = FALSE /\ pBlock = <<>> /\ currentBlock = <<>> /\ columns = <<>>
  /\ isFirstCoordLine = TRUE /\ features = <<>> /\ lineNum = 0
  /\ pc = "idle" /\ query = Region(0, 0) /\ delivered = <<>> /\ fromCache = FALSE

FltIdle == fltIn = <<>> /\ fltOut = <<>> /\ fltDone = "no"

TaiIdle ==
  /\ taiText = <<>> /\ entries = <<>> /\ lastChr = <<>> /\ lastChrStart = 0
  /\ lastRawVirtualOffset = 0
  /\ absText = <<>> /\ absEntries = <<>> /\ absLastChr = <<>>
  /\ absLastChrStart = 0 /\ absLastRaw = 0

QIdle ==
  /\ records = <<>> /\ layout = <<>> /\ qpc = "idle" /\ qregion = <<>>
  /\ looked = <<>> /\ buffers = <<>> /\ slices = <<>> /\ yielded = <<>>

CodecIdle == cdIn = <<>> /\ cdEnc = <<>> /\ cdOut = <<>> /\ cdpc = "idle"

RefIdle ==
  selAlignments = <<>> /\ selArgs = <<>> /\ selResult = <<>> /\ selpc = "idle"

FastaIdle ==
  faFeature = <<>> /\ faSamples = <<>> /\ faOpts = <<>>
  /\ faRows = <<>> /\ faIns = <<>> /\ faNext = 0 /\ fapc = "idle"
  /\ faOut = <<>>

AdapterIdle ==
  setupP = 0 /\ setups = <<>> /\ cache = <<>> /\ fills = <<>>
  /\ queries = <<>>

StreamIdle ==
  bmVersion = "" /\ bmUpstream = <<>> /\ bmEmitted = 0
  /\ bmBuffer = <<>> /\ bmOut = <<>> /\ bmpc = "idle"

ChunkIdle ==
  ccRecords = <<>> /\ ccStore = <<>> /\ ccFills = <<>>
  /\ ccAsked = <<>>

TabixIdle ==
  mtRecords = <<>> /\ mtConf = <<>> /\ mtNext = 0
  /\ mtFirstFound = <<>> /\ mtOut = <<>> /\ mtpc = "idle"

NamedIdle ==
  nmFile = <<>> /\ nmIndex = <<>> /\ nmQuery = <<>>
  /\ nmPair = <<>> /\ nmFeatures = <<>> /\ nmOut = <<>> /\ nmpc = "idle"

ReplayIdle ==
  rpRle = FALSE /\ rpLines = <<>> /\ rpState = <<>>
  /\ rppc = "idle"

EstIdle ==
  esHeap = <<>> /\ esCopyOf = <<>> /\ esPrev = <<>>
  /\ esRows = <<>> /\ esIns = <<>> /\ esNext = 0 /\ esLog = <<>>
  /\ espc = "idle"

TafIdle == ParseIdle /\ FltIdle /\ TaiIdle /\ QIdle
NotCodecIdle == RefIdle /\ FastaIdle /\ AdapterIdle /\ StreamIdle /\ ChunkIdle /\ TabixIdle /\ NamedIdle /\ ReplayIdle /\ EstIdle
NotRefIdle == CodecIdle /\ FastaIdle /\ AdapterIdle /\ StreamIdle /\ ChunkIdle /\ TabixIdle /\ NamedIdle /\ ReplayIdle /\ EstIdle
NotFastaIdle == CodecIdle /\ RefIdle /\ AdapterIdle /\ StreamIdle /\ ChunkIdle /\ TabixIdle /\ NamedIdle /\ ReplayIdle /\ EstIdle
NotAdapterIdle == CodecIdle /\ RefIdle /\ FastaIdle /\ StreamIdle /\ ChunkIdle /\ TabixIdle /\ NamedIdle /\ ReplayIdle /\ EstIdle
NotStreamIdle == CodecIdle /\ RefIdle /\ FastaIdle /\ AdapterIdle /\ ChunkIdle /\ TabixIdle /\ NamedIdle /\ ReplayIdle /\ EstIdle
NotChunkIdle == CodecIdle /\ RefIdle /\ FastaIdle /\ AdapterIdle /\ StreamIdle /\ TabixIdle /\ NamedIdle /\ ReplayIdle /\ EstIdle
NotTabixIdle == CodecIdle /\ RefIdle /\ FastaIdle /\ AdapterIdle /\ StreamIdle /\ ChunkIdle /\ NamedIdle /\ ReplayIdle /\ EstIdle
NotNamedIdle == CodecIdle /\ RefIdle /\ FastaIdle /\ AdapterIdle /\ StreamIdle /\ ChunkIdle /\ TabixIdle /\ ReplayIdle /\ EstIdle
NotReplayIdle == CodecIdle /\ RefIdle /\ FastaIdle /\ AdapterIdle /\ StreamIdle /\ ChunkIdle /\ TabixIdle /\ NamedIdle /\ EstIdle
NotEstIdle == CodecIdle /\ RefIdle /\ FastaIdle /\ AdapterIdle /\ StreamIdle /\ ChunkIdle /\ TabixIdle /\ NamedIdle /\ ReplayIdle
LaterIdle == CodecIdle /\ RefIdle /\ FastaIdle /\ AdapterIdle /\ StreamIdle /\ ChunkIdle /\ TabixIdle /\ NamedIdle /\ ReplayIdle /\ EstIdle

----------------------------------------------------------------------------
(* SpecParse: one cache fill (parseTafBlocks over a slice read line by     *)
(* line) followed by getFeatures on the filled value and on a cache hit.   *)

ParserState ==
  [pBlock |-> pBlock, currentBlock |-> currentBlock, columns |-> columns,
   isFirstCoordLine |-> isFirstCoordLine, features |-> features,
   lineNum |-> lineNum]

InitParse ==
  /\ rle \in BOOLEAN
  /\ pBlock = <<>> /\ currentBlock = <<>> /\ columns = <<>>
  /\ isFirstCoordLine = TRUE /\ features = <<>> /\ lineNum = 0
  /\ pc = "parsing" /\ query = Region(0, 0) /\ delivered = <<>>
  /\ fromCache = FALSE
  /\ FltIdle /\ TaiIdle /\ QIdle /\ LaterIdle

\* the loop body of parseTafBlocks on the next line of the slice
ReadLine ==
  /\ pc = "parsing" /\ lineNum < MaxLines
  /\ \E line \in LinesOf(rle) :
       LET st == parseTafLine(ParserState, line, rle) IN
       /\ pBlock' = st.pBlock
       /\ currentBlock' = st.currentBlock
       /\ columns' = st.columns
       /\ isFirstCoordLine' = st.isFirstCoordLine
       /\ features' = st.features
       /\ lineNum' = st.lineNum
  /\ UNCHANGED <<rle, pc, query, delivered, fromCache, fltVars, taiVars, qVars, laterVars>>

\* the slice is exhausted: the last block is finalized and the array returned
EndOfSlice ==
  /\ pc = "parsing"
  /\ features' = parseTafEnd(ParserState)
  /\ pBlock' = <<>> /\ currentBlock' = <<>> /\ columns' = <<>>
  /\ pc' = "parsed"
  /\ UNCHANGED <<rle, isFirstCoordLine, lineNum, query, delivered, fromCache,
                 fltVars, taiVars, qVars, laterVars>>

\* getFeatures on the value of the fill it awaited
GetFeaturesFresh ==
  /\ pc = "parsed"
  /\ \E q \in Queries :
       /\ query' = q
       /\ delivered' = deliverFeatures(features, q)
  /\ pc' = "delivered"
  /\ fromCache' = FALSE
  /\ UNCHANGED <<rle, pBlock, currentBlock, columns, isFirstCoordLine, features,
                 lineNum, fltVars, taiVars, qVars, laterVars>>

\* getFeatures of a later query that finds the value in the cache
GetFeaturesCached ==
  /\ pc = "delivered" /\ ~fromCache
  /\ \E q \in Queries :
       /\ query' = q
       /\ delivered' = deliverFeatures(features, q)
  /\ fromCache' = TRUE
  /\ UNCHANGED <<rle, pBlock, currentBlock, columns, isFirstCoordLine, features,
                 lineNum, pc, fltVars, taiVars, qVars, laterVars>>

NextParse == ReadLine \/ EndOfSlice \/ GetFeaturesFresh \/ GetFeaturesCached

SpecParse == InitParse /\ [][NextParse]_vars

----------------------------------------------------------------------------
(* Properties of the reconstructor and of getFeatures (SpecParse) *)

\* the number of positions of an encoded sequence that hold neither the gap
\* code nor the space code
NonGap(enc) ==
  Cardinality({i \in 0..(enc.length - 1) :
                 getBaseCode(enc, i) # ENCODE_MAP("-")
                 /\ getBaseCode(enc, i) # ENCODE_MAP(" ")})

\* the row map entry of the assembly of the reference row (row 0)
RefRowOf(feat) == feat.alignments[AssemblyOf(feat.block.rows[1])]

\* C1: every block delivered for the query [qs, qe) has end > qs and
\* start < qe, on a fresh fill and on a cache hit.
C1_DeliveredOverlapQuery ==
  \A k \in 1..Len(delivered) :
    delivered[k].end > query.start /\ delivered[k].start < query.end

\* a cache hit that delivers one block and holds back another
C1_Witness ==
  /\ pc = "delivered" /\ fromCache
  /\ Len(delivered) > 0 /\ Len(delivered) < Len(features)

\* C3: within one query, blocks are delivered in non-decreasing refStart
\* order.
C3_DeliveredAscending ==
  \A j, k \in 1..Len(delivered) :
    j < k => delivered[j].start <= delivered[k].start

FeatureLengthsAgree(feat) ==
  /\ feat.seq.length = feat.block.columnNumber
  /\ \A j \in 1..Len(feat.block.rows) :
       Len(feat.block.rows[j].bases) = feat.seq.length
  /\ \A name \in DOMAIN feat.alignments :
       /\ feat.alignments[name].seq.length = feat.seq.length
       /\ Len(feat.alignments[name].seq.data) = Len(feat.seq.data)

\* C4: in every block the reconstructor produces, every row's sequence has
\* the length of the reference sequence, which is the number of columns.
C4_RowsHaveRefLength ==
  \A k \in 1..Len(features) : FeatureLengthsAgree(features[k])

\* plain bases: a block of two rows made from the three-character column,
\* and a block of three rows whose third row was padded for the
\* two-character column
C4_Witness ==
  /\ ~rle
  /\ \E k \in 1..Len(features) :
       /\ Len(features[k].block.rows) = 2
       /\ features[k].block.rows[1].bases[1] = "C"
  /\ \E k \in 1..Len(features) :
       /\ Len(features[k].block.rows) = 3
       /\ features[k].block.rows[3].bases = <<"-">>

\* C5: the row stored in the row map for the reference assembly has
\* exactly refEnd - refStart non-gap characters.
C5_RefRowNonGapIsSpan ==
  \A k \in 1..Len(delivered) :
    NonGap(RefRowOf(delivered[k]).seq) = delivered[k].end - delivered[k].start

\* C6: refSeq is identical to the sequence stored in the row map under the
\* reference row's assembly name.
C6_RefSeqIsRefRow ==
  \A k \in 1..Len(delivered) :
    delivered[k].seq = RefRowOf(delivered[k]).seq

----------------------------------------------------------------------------
(* SpecFilter: the instructions folded into a block, for the first           *)
(* coordinate line of a slice and for a later one.                          *)

\* the instruction groups a coordinate line is composed of
InsGroups ==
  { InsI("0", HG1, "1", "+", "9"), InsI("1", MM1, "0", "-", "9"),
    InsS("0", HG2, "0", "+", "9"), InsS("1", MM1, "3", "-", "9"),
    <<T("d"), T("0")>>, <<T("d"), T("1")>>,
    <<T("g"), T("0"), T("1")>>, <<T("g"), T("1"), T("2")>>,
    <<T("G"), T("0"), <<"A", "A">>>>, <<T("G"), T("1"), T("A")>> }

RECURSIVE InsFields(_)
InsFields(n) ==
  IF n = 0 THEN {<<>>}
  ELSE InsFields(n - 1) \cup {f \o g : f \in InsFields(n - 1), g \in InsGroups}

InitFilter ==
  /\ fltIn \in InsFields(MaxIns)
  /\ fltOut = <<>> /\ fltDone = "no"
  /\ ParseIdle /\ TaiIdle /\ QIdle /\ LaterIdle

\* the line is the first coordinate line of the slice
FoldFirstLine ==
  /\ fltDone = "no"
  /\ fltOut' = foldedInstructions(TRUE, fltIn)
  /\ fltDone' = "first"
  /\ UNCHANGED <<fltIn, parseVars, taiVars, qVars, laterVars>>

\* the line follows another coordinate line
FoldLaterLine ==
  /\ fltDone = "no"
  /\ fltOut' = foldedInstructions(FALSE, fltIn)
  /\ fltDone' = "later"
  /\ UNCHANGED <<fltIn, parseVars, taiVars, qVars, laterVars>>

NextFilter == FoldFirstLine \/ FoldLaterLine

SpecFilter == InitFilter /\ [][NextFilter]_vars

\* the positions of the i and s instructions of the line
InsertOrSubstitute(parsed) ==
  {k \in 1..Len(parsed) : parsed[k].type \in {"i", "s"}}

\* C7: for the first coordinate line the folded vector holds only i
\* instructions: one per i or s of the line, in order, with row,
\* sequenceName, start, strand and sequenceLength unchanged, none for d, g, G.
C7_FirstLineOnlyInserts ==
  fltDone = "first" =>
    LET parsed == parseRowInstructions(fltIn)
        P == InsertOrSubstitute(parsed)
    IN /\ Len(fltOut) = Cardinality(P)
       /\ \A k \in 1..Len(fltOut) : fltOut[k].type = "i"
       /\ \A k \in P :
            LET out == fltOut[Cardinality({j \in P : j <= k})]
            IN /\ out.row = parsed[k].row
               /\ out.sequenceName = parsed[k].sequenceName
               /\ out.start = parsed[k].start
               /\ out.strand = parsed[k].strand
               /\ out.sequenceLength = parsed[k].sequenceLength

\* a first line with a substitute and a dropped instruction
C7_Witness ==
  /\ fltDone = "first"
  /\ Len(fltOut) = 1
  /\ \E k \in 1..Len(parseRowInstructions(fltIn)) :
       parseRowInstructions(fltIn)[k].type = "s"
  /\ \E k \in 1..Len(parseRowInstructions(fltIn)) :
       parseRowInstructions(fltIn)[k].type \in {"d", "g", "G"}

----------------------------------------------------------------------------
(* readTaiFile: the loop over the rows of the .tai file.  A row is its      *)
(* three tab-separated fields, each a string.                               *)

\* the decimal digits of a natural number
RECURSIVE ToDigits(_)
ToDigits(n) ==
  LET d == <<"0", "1", "2", "3", "4", "5", "6", "7", "8", "9">>[(n % 10) + 1]
  IN IF n < 10 THEN <<d>> ELSE Append(ToDigits(n \div 10), d)

TaiRow(chr, chrStart, virtualOffset) ==
  [chr |-> chr, chrStart |-> chrStart, virtualOffset |-> virtualOffset]

VirtualOffset(blockPosition, dataPosition) ==
  [blockPosition |-> blockPosition, dataPosition |-> dataPosition]

TaiState(e, chr, chrStart, raw) ==
  [entries |-> e, lastChr |-> chr, lastChrStart |-> chrStart,
   lastRawVirtualOffset |-> raw]

\* entries[currChr].push(entry), creating the list when it is missing
PushEntry(e, currChr, entry) ==
  [name \in DOMAIN e \cup {currChr} |->
     IF name = currChr
       THEN (IF currChr \in DOMAIN e THEN Append(e[currChr], entry) ELSE <<entry>>)
       ELSE e[name]]

\* a loop body that advances lastChrStart on absolute rows only
readTaiLineStaleStart(st, line) ==
  LET isRelative == line.chr = <<"*">>
      currChr == IF isRelative THEN st.lastChr ELSE LastPart(line.chr, ".")
      absVirtualOffset == IF isRelative
                            THEN st.lastRawVirtualOffset + Num(line.virtualOffset)
                            ELSE Num(line.virtualOffset)
      absChrStart == IF isRelative THEN st.lastChrStart + Num(line.chrStart)
                     ELSE Num(line.chrStart)
  IN TaiState(PushEntry(st.entries, currChr,
                        [chrStart |-> absChrStart,
                         virtualOffset |->
                           VirtualOffset(absVirtualOffset \div 65536,
                                         absVirtualOffset % 65536)]),
              currChr,
              IF isRelative THEN st.lastChrStart ELSE absChrStart,
              absVirtualOffset)

\* one iteration of the for loop of readTaiFile
readTaiLine(st, line) ==
  LET isRelative == line.chr = <<"*">>
      currChr == IF isRelative THEN st.lastChr ELSE LastPart(line.chr, ".")
      absVirtualOffset == IF isRelative
                            THEN st.lastRawVirtualOffset + Num(line.virtualOffset)
                            ELSE Num(line.virtualOffset)
      absChrStart == IF isRelative THEN st.lastChrStart + Num(line.chrStart)
                     ELSE Num(line.chrStart)
  IN TaiState(PushEntry(st.entries, currChr,
                        [chrStart |-> absChrStart,
                         virtualOffset |->
                           VirtualOffset(absVirtualOffset \div 65536,
                                         absVirtualOffset % 65536)]),
              currChr, absChrStart, absVirtualOffset)

----------------------------------------------------------------------------
(* SpecTai: a .tai file read row by row, next to the same file with every   *)
(* relative row rewritten to the absolute values it stands for.             *)

AbsoluteRows ==
  {TaiRow(c, p[1], p[2]) :
     c \in {HG1, HG2, MM1, <<"1">>},
     p \in {<<T("0"), T("0")>>,
            <<T("7"), <<"6", "5", "5", "3", "5">>>>,
            <<T("7"), <<"1", "3", "1", "0", "7", "5">>>>}}

RelativeRows ==
  {TaiRow(<<"*">>, p[1], p[2]) :
     p \in {<<T("1"), T("1")>>,
            <<T("2"), <<"6", "5", "5", "3", "6">>>>,
            <<T("0"), <<"6", "5", "5", "3", "5">>>>}}

\* the absolute row a row stands for, given the rewritten rows before it
Absolutized(line, before) ==
  IF line.chr # <<"*">> THEN line
  ELSE LET prev == before[Len(before)]
       IN TaiRow(prev.chr,
                 ToDigits(ToNumber(prev.chrStart) + ToNumber(line.chrStart)),
                 ToDigits(ToNumber(prev.virtualOffset)
                          + ToNumber(line.virtualOffset)))

InitTai ==
  /\ taiText = <<>> /\ entries = <<>> /\ lastChr = <<>> /\ lastChrStart = 0
  /\ lastRawVirtualOffset = 0
  /\ absText = <<>> /\ absEntries = <<>> /\ absLastChr = <<>>
  /\ absLastChrStart = 0 /\ absLastRaw = 0
  /\ ParseIdle /\ FltIdle /\ QIdle /\ LaterIdle

\* both files advance by one row
ReadTaiStep(line) ==
  LET st == readTaiLine(TaiState(entries, lastChr, lastChrStart,
                                 lastRawVirtualOffset), line)
      absLine == Absolutized(line, absText)
      ast == readTaiLine(TaiState(absEntries, absLastChr, absLastChrStart,
                                  absLastRaw), absLine)
  IN /\ taiText' = Append(taiText, line)
     /\ entries' = st.entries
     /\ lastChr' = st.lastChr
     /\ lastChrStart' = st.lastChrStart
     /\ lastRawVirtualOffset' = st.lastRawVirtualOffset
     /\ absText' = Append(absText, absLine)
     /\ absEntries' = ast.entries
     /\ absLastChr' = ast.lastChr
     /\ absLastChrStart' = ast.lastChrStart
     /\ absLastRaw' = ast.lastRawVirtualOffset
     /\ UNCHANGED <<parseVars, fltVars, qVars, laterVars>>

ReadAbsoluteRow ==
  /\ Len(taiText) < MaxTaiLines
  /\ \E line \in AbsoluteRows : ReadTaiStep(line)

\* a '*' row follows an absolute row of the same sequence
ReadRelativeRow ==
  /\ Len(taiText) < MaxTaiLines /\ Len(taiText) > 0
  /\ \E line \in RelativeRows : ReadTaiStep(line)

NextTai == ReadAbsoluteRow \/ ReadRelativeRow

SpecTai == InitTai /\ [][NextTai]_vars

\* C8: a .tai file with '*' rows yields, for every refName, the same
\* (chrStart, blockPosition, dataPosition) entries as the same file with
\* every relative row rewritten to absolute values.
C8_RelativeEqualsAbsolute ==
  /\ DOMAIN entries = DOMAIN absEntries
  /\ \A name \in DOMAIN entries : entries[name] = absEntries[name]

\* two relative rows in a row, the file rewritten to absolute rows only, and
\* an offset carried into the next bgzf block
C8_Witness ==
  /\ Len(taiText) >= 3
  /\ taiText[2].chr = <<"*">> /\ taiText[3].chr = <<"*">>
  /\ \A k \in 1..Len(absText) : absText[k].chr # <<"*">>
  /\ \E name \in DOMAIN entries :
       /\ Len(entries[name]) = 3
       /\ entries[name][3].virtualOffset.blockPosition
            > entries[name][1].virtualOffset.blockPosition
       /\ entries[name][3].chrStart > entries[name][2].chrStart

\* the rows of the rewritten file that name the sequence chr, in file order
RowsOfSequence(chr) == SelectSeq(absText, LAMBDA row : row.chr = chr)

\* the file is sorted per fully qualified sequence name
SortedPerSequence ==
  \A k \in 1..Len(absText) :
    LET rows == RowsOfSequence(absText[k].chr)
    IN \A i, j \in 1..Len(rows) :
         i < j => ToNumber(rows[i].chrStart) <= ToNumber(rows[j].chrStart)

\* C30: when the rows of the .tai file are sorted per fully qualified
\* sequence name, the entry list of every refName key of the index is in
\* non-decreasing chrStart order.
C30_EntriesSortedPerRefName ==
  SortedPerSequence =>
    \A name \in DOMAIN entries :
      \A i, j \in 1..Len(entries[name]) :
        i < j => entries[name][i].chrStart <= entries[name][j].chrStart

----------------------------------------------------------------------------
(* getLines and the cache fill *)

MIN_BLOCK_SIZE == 65536

\* the while loop of lowerBound; arr is 0-based in the source
RECURSIVE lowerBoundLoop(_, _, _, _)
lowerBoundLoop(arr, target, lo, hi) ==
  IF lo < hi THEN
    LET mid == (lo + hi) \div 2 IN
    IF arr[mid + 1].chrStart < target
      THEN lowerBoundLoop(arr, target, mid + 1, hi)
      ELSE lowerBoundLoop(arr, target, lo, mid)
  ELSE lo

lowerBound(arr, target) == lowerBoundLoop(arr, target, 0, Len(arr))

\* a firstEntry index without the step back: records[startIdx]
firstEntryIndexNoBias(recs, qStart) ==
  Min(lowerBound(recs, qStart), Len(recs) - 1)

\* the 0-based index of firstEntry: Math.max(startIdx - 1, 0)
firstEntryIndex(recs, qStart) == Max(lowerBound(recs, qStart) - 1, 0)

\* the 0-based index of nextEntry: records[endIdx + 1] ?? records.at(-1)
nextEntryIndex(recs, qEnd) ==
  LET endIdx == lowerBound(recs, qEnd)
  IN IF endIdx + 1 < Len(recs) THEN endIdx + 1 ELSE Len(recs) - 1

\* getLines up to the cache lookup: <<>> when the refName has no records,
\* else the pair handed to the cache
getLines(q, recs) ==
  IF Len(recs) > 0
    THEN <<[firstEntry |-> recs[firstEntryIndex(recs, q.start) + 1],
            nextEntry |-> recs[nextEntryIndex(recs, q.end) + 1]]>>
    ELSE <<>>

\* a key made of nextEntry.virtualOffset alone
cacheKeyNextOnly(pair) ==
  <<pair.nextEntry.virtualOffset.blockPosition,
    pair.nextEntry.virtualOffset.dataPosition>>

\* the cache key: `${firstEntry.virtualOffset}:${nextEntry.virtualOffset}`
cacheKey(pair) ==
  <<pair.firstEntry.virtualOffset.blockPosition,
    pair.firstEntry.virtualOffset.dataPosition,
    pair.nextEntry.virtualOffset.blockPosition,
    pair.nextEntry.virtualOffset.dataPosition>>

readLength(pair) ==
  LET startBlock == pair.firstEntry.virtualOffset.blockPosition
      endBlock == pair.nextEntry.virtualOffset.blockPosition
  IN IF endBlock > startBlock THEN endBlock - startBlock + MIN_BLOCK_SIZE
     ELSE MIN_BLOCK_SIZE

\* file.read(readLength, startBlock) followed by unzip: the decompressed
\* lines of the bgzf blocks that lie whole in the bytes read
RECURSIVE unzipFrom(_, _, _, _)
unzipFrom(file, j, from, to) ==
  IF j > Len(file) THEN <<>>
  ELSE IF file[j].pos < from THEN unzipFrom(file, j + 1, from, to)
  ELSE IF file[j].pos + file[j].size <= to
    THEN file[j].lines \o unzipFrom(file, j + 1, from, to)
  ELSE <<>>

readAndUnzip(file, pair) ==
  LET startBlock == pair.firstEntry.virtualOffset.blockPosition
  IN unzipFrom(file, 1, startBlock, startBlock + readLength(pair))

\* the end offset as the profiling copies of the slice step compute it
endOffsetGuarded(pair, bufferLength) ==
  IF pair.nextEntry.virtualOffset.blockPosition
       = pair.firstEntry.virtualOffset.blockPosition
     /\ pair.nextEntry.virtualOffset.dataPosition
          > pair.firstEntry.virtualOffset.dataPosition
    THEN pair.nextEntry.virtualOffset.dataPosition
    ELSE bufferLength

\* the end offset of the fill of the adapter
endOffset(pair, bufferLength) ==
  IF pair.nextEntry.virtualOffset.blockPosition
       = pair.firstEntry.virtualOffset.blockPosition
    THEN pair.nextEntry.virtualOffset.dataPosition
    ELSE bufferLength

\* buffer.slice(startOffset, endOffset), positions counted in lines
sliceOf(buffer, pair) ==
  LET startOffset == pair.firstEntry.virtualOffset.dataPosition
      endOff == endOffset(pair, Len(buffer))
  IN [startOffset |-> startOffset, endOffset |-> endOff,
      lines |-> Slice(buffer, Min(startOffset, Len(buffer)),
                      Min(endOff, Len(buffer)))]

----------------------------------------------------------------------------
(* The TAF files and indexes a split query runs on.  Line k of the file     *)
(* starts the alignment block [2(k-1), 2(k-1)+1) of sequence h.1: kind "a"  *)
(* states the reference coordinate (and can be indexed), kind "b" states    *)
(* the gap to the previous block.                                           *)

RefStartOf(k) == 2 * (k - 1)

FileLine(k, kind) ==
  IF kind = "a"
    THEN Line("coord", <<T("A")>>,
              <<T("s"), T("0"), HG1, ToDigits(RefStartOf(k)), T("+"), T("9")>>)
    ELSE Line("coord", <<T("A")>>, <<T("g"), T("0"), T("1")>>)

HeaderLine == Line("skip", <<>>, <<>>)

\* the bgzf block (1-based) that holds line k, given the lines after which
\* a block ends
BlockOfLine(k, cuts) == 1 + Cardinality({c \in cuts : c < k})

LinesOfBlock(j, n, cuts) == {k \in 1..n : BlockOfLine(k, cuts) = j}

\* the elements of a set of numbers in increasing order
Ascending(S) ==
  [i \in 1..Cardinality(S) |->
     CHOOSE k \in S : Cardinality({j \in S : j < k}) = i - 1]

\* the file: bgzf blocks of compressed size `size`, the first one opening
\* with the header line
Layout(n, kinds, cuts, size) ==
  [j \in 1..(Cardinality(cuts) + 1) |->
     LET ks == Ascending(LinesOfBlock(j, n, cuts))
     IN [pos |-> (j - 1) * size, size |-> size,
         lines |-> (IF j = 1 THEN <<HeaderLine>> ELSE <<>>)
                   \o [i \in 1..Len(ks) |-> FileLine(ks[i], kinds[ks[i]])]]]

\* the index entry of line k
EntryOf(k, cuts, size) ==
  [chrStart |-> RefStartOf(k),
   virtualOffset |->
     VirtualOffset((BlockOfLine(k, cuts) - 1) * size,
                   Cardinality({i \in 1..(k - 1) :
                                  BlockOfLine(i, cuts) = BlockOfLine(k, cuts)})
                   + (IF BlockOfLine(k, cuts) = 1 THEN 1 ELSE 0))]

IndexOver(indexed, cuts, size) ==
  LET ks == Ascending(indexed)
  IN [i \in 1..Len(ks) |-> EntryOf(ks[i], cuts, size)]

\* compressed sizes of a bgzf block: a full block and a smaller one
BlockSizes == {MIN_BLOCK_SIZE, 30000}

QueryPoints == {0, 1, 2, 4, 5, 7}

----------------------------------------------------------------------------
(* SpecQuery: the query [qs, qe) and its two halves [qs, m), [m, qe) run    *)
(* on one file and index, each through getLines, the fill's read and slice, *)
(* parseTafBlocks and the overlap filter of getFeatures.                    *)

InitQuery ==
  /\ \E n \in 1..MaxFileLines :
       \E kinds \in [1..n -> {"a", "b"}], cuts \in SUBSET (1..(n - 1)),
          size \in BlockSizes :
         /\ kinds[1] = "a"
         /\ layout = Layout(n, kinds, cuts, size)
         /\ \E indexed \in SUBSET {k \in 1..n : kinds[k] = "a"} :
              records = IndexOver(indexed, cuts, size)
  /\ \E qs, m, qe \in QueryPoints :
       /\ qs < m /\ m < qe
       /\ qregion = <<Region(qs, qe), Region(qs, m), Region(m, qe)>>
  /\ qpc = "idle"
  /\ looked = <<>> /\ buffers = <<>> /\ slices = <<>> /\ yielded = <<>>
  /\ ParseIdle /\ FltIdle /\ TaiIdle /\ LaterIdle

\* getLines of each query, up to the cache lookup
GetLines ==
  /\ qpc = "idle"
  /\ looked' = [i \in 1..3 |-> getLines(qregion[i], records)]
  /\ qpc' = "looked"
  /\ UNCHANGED <<records, layout, qregion, buffers, slices, yielded,
                 parseVars, fltVars, taiVars, laterVars>>

\* the refName has no records: getLines returns undefined, nothing is delivered
NoRecords ==
  /\ qpc = "looked" /\ Len(records) = 0
  /\ yielded' = [i \in 1..3 |-> <<>>]
  /\ qpc' = "done"
  /\ UNCHANGED <<records, layout, qregion, looked, buffers, slices,
                 parseVars, fltVars, taiVars, laterVars>>

\* the fill of each query: read, unzip, slice
FillChunk ==
  /\ qpc = "looked" /\ Len(records) > 0
  /\ buffers' = [i \in 1..3 |-> readAndUnzip(layout, looked[i][1])]
  /\ slices' = [i \in 1..3 |->
                  sliceOf(readAndUnzip(layout, looked[i][1]), looked[i][1])]
  /\ qpc' = "sliced"
  /\ UNCHANGED <<records, layout, qregion, looked, yielded,
                 parseVars, fltVars, taiVars, laterVars>>

\* parseTafBlocks on each slice, then the for loop of getFeatures
DeliverSlices ==
  /\ qpc = "sliced"
  /\ yielded' = [i \in 1..3 |->
                   deliverFeatures(parseTafBlocks(slices[i].lines, FALSE),
                                   qregion[i])]
  /\ qpc' = "done"
  /\ UNCHANGED <<records, layout, qregion, looked, buffers, slices,
                 parseVars, fltVars, taiVars, laterVars>>

NextQuery == GetLines \/ NoRecords \/ FillChunk \/ DeliverSlices

SpecQuery == InitQuery /\ [][NextQuery]_vars

\* C2: the blocks yielded for [qs, qe) are those yielded for [qs, m)
\* together with those yielded for [m, qe).
C2_SplitQueryUnion ==
  qpc = "done" =>
    Range(yielded[1]) = Range(yielded[2]) \cup Range(yielded[3])

\* the entries whose chrStart is at most p, and those below p
EntriesAtOrBefore(p) == {k \in 1..Len(records) : records[k].chrStart <= p}
EntriesBefore(p) == {k \in 1..Len(records) : records[k].chrStart < p}

LastOf(S) == CHOOSE k \in S : \A j \in S : j <= k

\* C9: when some entry has chrStart <= qStart, firstEntry is the last entry
\* whose chrStart <= qStart.
C9_FirstEntryLastAtOrBefore ==
  qpc # "idle" =>
    \A i \in 1..3 :
      EntriesAtOrBefore(qregion[i].start) # {} =>
        looked[i][1].firstEntry
          = records[LastOf(EntriesAtOrBefore(qregion[i].start))]

\* C9 as amended: firstEntry is the last entry whose chrStart < qStart, and
\* the first entry of the list when no entry starts before qStart.
C9_FirstEntryLastBefore ==
  qpc # "idle" /\ Len(records) > 0 =>
    \A i \in 1..3 :
      looked[i][1].firstEntry
        = IF EntriesBefore(qregion[i].start) # {}
            THEN records[LastOf(EntriesBefore(qregion[i].start))]
            ELSE records[1]

\* a lookup whose qStart is the chrStart of an entry that is not the first
C9_Witness ==
  /\ qpc = "looked" /\ Len(records) > 1
  /\ \E k \in 2..Len(records) : records[k].chrStart = qregion[1].start
  /\ looked[3][1].firstEntry # looked[1][1].firstEntry

\* C10: the slice is buffer[firstEntry.dataPos, endOffset), endOffset being
\* nextEntry.dataPos only when both entries lie in one bgzf block and
\* nextEntry.dataPos > firstEntry.dataPos, the buffer length otherwise; with
\* firstEntry = nextEntry the slice extends to the end of the buffer.
C10_SliceBounds ==
  qpc \in {"sliced", "done"} /\ Len(records) > 0 =>
    \A i \in 1..3 :
      LET pair == looked[i][1]
          buf == buffers[i]
      IN /\ slices[i].startOffset = pair.firstEntry.virtualOffset.dataPosition
         /\ slices[i].endOffset = endOffsetGuarded(pair, Len(buf))
         /\ slices[i].lines
              = Slice(buf, Min(slices[i].startOffset, Len(buf)),
                      Min(endOffsetGuarded(pair, Len(buf)), Len(buf)))
         /\ pair.firstEntry = pair.nextEntry =>
              slices[i].lines
                = Slice(buf, Min(slices[i].startOffset, Len(buf)), Len(buf))

\* every line of the file, in file order
RECURSIVE FileLinesFrom(_, _)
FileLinesFrom(file, j) ==
  IF j > Len(file) THEN <<>> ELSE file[j].lines \o FileLinesFrom(file, j + 1)

\* the alignment blocks of the whole file that overlap the region
OverlappingBlocksOfFile(region) ==
  deliverFeatures(parseTafBlocks(FileLinesFrom(layout, 1), FALSE), region)

\* C21: on a file whose first block is indexed, every alignment block of the
\* file that overlaps the query is yielded, also when the query starts at or
\* after the last index entry and when the file is one bgzf block.
C21_EveryOverlappingBlockYielded ==
  qpc = "done" /\ Len(records) > 0 /\ records[1].chrStart = 0 =>
    \A i \in 1..3 :
      \A f \in Range(OverlappingBlocksOfFile(qregion[i])) :
        \E g \in Range(yielded[i]) : g.start = f.start /\ g.end = f.end

----------------------------------------------------------------------------
(* SpecCodec: encodeSequence followed by decodeSequence                     *)
(* (util/sequenceEncoding.ts).                                              *)

MaxSeqLen == 3       \* characters of an encoded string

DECODE_MAP == <<"a", "c", "g", "t", "n", "-", " ", "A", "C", "G", "T", "N">>

DECODE_MAP_LOWER ==
  <<"a", "c", "g", "t", "n", "-", " ", "a", "c", "g", "t", "n">>

\* the nibble choice reversed: odd index = high nibble
decodeBaseSwapped(encoded, index) ==
  IF index < 0 \/ index >= encoded.length THEN <<>>
  ELSE LET byte == encoded.data[(index \div 2) + 1]
           code == IF index % 2 = 1 THEN byte \div 16 ELSE byte % 16
       IN IF code < Len(DECODE_MAP) THEN <<DECODE_MAP[code + 1]>> ELSE <<"?">>

\* decodeBase: '' out of range, else DECODE_MAP[code] ?? '?'
decodeBase(encoded, index) ==
  IF index < 0 \/ index >= encoded.length THEN <<>>
  ELSE LET byte == encoded.data[(index \div 2) + 1]
           code == IF index % 2 = 1 THEN byte % 16 ELSE byte \div 16
       IN IF code < Len(DECODE_MAP) THEN <<DECODE_MAP[code + 1]>> ELSE <<"?">>

\* decodeBaseLower: the same over DECODE_MAP_LOWER
decodeBaseLower(encoded, index) ==
  IF index < 0 \/ index >= encoded.length THEN <<>>
  ELSE LET code == getBaseCode(encoded, index)
       IN IF code < Len(DECODE_MAP_LOWER) THEN <<DECODE_MAP_LOWER[code + 1]>>
          ELSE <<"?">>

\* the for loop of decodeSequence, from 0-based index i
RECURSIVE decodeSequenceFrom(_, _)
decodeSequenceFrom(encoded, i) ==
  IF i >= encoded.length THEN <<>>
  ELSE decodeBase(encoded, i) \o decodeSequenceFrom(encoded, i + 1)

decodeSequence(encoded) == decodeSequenceFrom(encoded, 0)

\* the 13 symbols of the codec, and a character outside them
CodecAlphabet ==
  {"a", "c", "g", "t", "n", "-", " ", "A", "C", "G", "T", "N", "?"}
CodecChars == CodecAlphabet \cup {"x"}

StringsUpTo(chars, n) == UNION {[1..k -> chars] : k \in 0..n}

InitCodec ==
  /\ cdIn \in StringsUpTo(CodecChars, MaxSeqLen)
  /\ cdEnc = <<>> /\ cdOut = <<>> /\ cdpc = "in"
  /\ TafIdle /\ NotCodecIdle

Encode ==
  /\ cdpc = "in"
  /\ cdEnc' = <<encodeSequence(cdIn)>>
  /\ cdpc' = "encoded"
  /\ UNCHANGED <<cdIn, cdOut, tafVars, notCodec>>

Decode ==
  /\ cdpc = "encoded"
  /\ cdOut' = <<decodeSequence(cdEnc[1])>>
  /\ cdpc' = "decoded"
  /\ UNCHANGED <<cdIn, cdEnc, tafVars, notCodec>>

NextCodec == Encode \/ Decode

SpecCodec == InitCodec /\ [][NextCodec]_vars

\* C18: decodeSequence(encodeSequence(s)) = s for every string s over the
\* 13-symbol alphabet of the codec, of even or odd length, the empty string
\* included.
C18_RoundTrip ==
  (cdpc = "decoded" /\ Range(cdIn) \subseteq CodecAlphabet)
    => cdOut = <<cdIn>>

\* an odd-length string that holds the unknown symbol and an upper-case base
C18_Witness ==
  /\ cdpc = "decoded" /\ Len(cdIn) = 3
  /\ cdIn[1] = "?" /\ cdIn[3] = "T" /\ cdIn[2] = "-"
  /\ Len(cdEnc[1].data) = 2
  /\ cdOut = <<cdIn>>

----------------------------------------------------------------------------
(* SpecRef: selectReferenceSequence (util/parseAssemblyName.ts).            *)

\* a truthy string argument: neither undefined nor ''
Truthy(x) == x # Undefined /\ x # <<>>

\* alignments[name] is an entry
HasEntry(alignments, name) == name \in DOMAIN alignments

\* the lookup with the query's assembly tried before refAssemblyName
selectReferenceSequenceQueryFirst(alignments, refAssemblyName, queryAssemblyName, firstAssemblyNameFound) ==
  IF Truthy(queryAssemblyName) /\ HasEntry(alignments, queryAssemblyName)
    THEN alignments[queryAssemblyName].seq
  ELSE IF Truthy(refAssemblyName) /\ HasEntry(alignments, refAssemblyName)
    THEN alignments[refAssemblyName].seq
  ELSE IF Truthy(firstAssemblyNameFound)
          /\ HasEntry(alignments, firstAssemblyNameFound)
    THEN alignments[firstAssemblyNameFound].seq
  ELSE Undefined

selectReferenceSequence(alignments, refAssemblyName, queryAssemblyName, firstAssemblyNameFound) ==
  IF Truthy(refAssemblyName) /\ HasEntry(alignments, refAssemblyName)
    THEN alignments[refAssemblyName].seq
  ELSE IF Truthy(queryAssemblyName) /\ HasEntry(alignments, queryAssemblyName)
    THEN alignments[queryAssemblyName].seq
  ELSE IF Truthy(firstAssemblyNameFound)
          /\ HasEntry(alignments, firstAssemblyNameFound)
    THEN alignments[firstAssemblyNameFound].seq
  ELSE Undefined

\* assembly names that can key a block's row map (the empty name of a
\* sequence name such as ".chr1" among them), and the sequence of each
RowKeys == {<<"h">>, <<"m">>, <<>>}
SeqsOf(name) ==
  IF name = <<"h">> THEN {<<"A">>, <<>>}
  ELSE IF name = <<"m">> THEN {<<"C">>}
  ELSE {<<"G">>}

RowMaps ==
  UNION {[keys -> {<<"A">>, <<"C">>, <<"G">>, <<>>}] : keys \in SUBSET RowKeys}

\* the values of refAssemblyName, queryAssemblyName, firstAssemblyNameFound
NameArgs == {<<"h">>, <<"m">>, <<"r">>, <<>>, Undefined}

InitRef ==
  /\ \E f \in RowMaps :
       /\ \A k \in DOMAIN f : f[k] \in SeqsOf(k)
       /\ selAlignments = [k \in DOMAIN f |-> [seq |-> f[k]]]
  /\ selArgs \in [{"ref", "query", "first"} -> NameArgs]
  /\ selResult = <<>> /\ selpc = "call"
  /\ TafIdle /\ NotRefIdle

SelectReference ==
  /\ selpc = "call"
  /\ selResult' = <<selectReferenceSequence(selAlignments, selArgs["ref"],
                                            selArgs["query"], selArgs["first"])>>
  /\ selpc' = "done"
  /\ UNCHANGED <<selAlignments, selArgs, tafVars, notRef>>

NextRef == SelectReference

SpecRef == InitRef /\ [][NextRef]_vars

\* a name that is non-empty and a key of the row map
IsRowKey(name) ==
  name # Undefined /\ name # <<>> /\ name \in DOMAIN selAlignments

SelCandidates == <<selArgs["ref"], selArgs["query"], selArgs["first"]>>

----------------------------------------------------------------------------
(* SpecFasta: processFeaturesToFasta and expandWithInsertions               *)
(* (util/fastaUtils.ts) over one feature with encoded sequences.            *)

MaxCols == 3         \* alignment columns of the feature

CODE_GAP == 5
CODE_SPACE == 6

getLowerCode(code) == IF code >= 7 /\ code <= 11 THEN code - 7 ELSE code

\* sampleToRowMap.get(sample): the 0-based row, -1 for undefined
sampleToRow(samples, sample) ==
  IF \E r \in 1..Len(samples) : samples[r] = sample
    THEN (CHOOSE r \in 1..Len(samples) :
            samples[r] = sample
            /\ \A r2 \in 1..Len(samples) : samples[r2] = sample => r2 <= r) - 1
    ELSE 0 - 1

\* the character written at a reference column
writtenChar(seq, alignment, i, showAllLetters, old) ==
  LET seqCode == getBaseCode(seq, i)
      alignCode == getBaseCode(alignment, i)
  IN IF alignCode = CODE_GAP THEN "-"
     ELSE IF alignCode # CODE_SPACE THEN
       (IF showAllLetters THEN decodeBaseLower(alignment, i)[1]
        ELSE IF getLowerCode(seqCode) = getLowerCode(alignCode) THEN "."
        ELSE decodeBaseLower(alignment, i)[1])
     ELSE old

\* the while loop that gathers one insertion: [sequence, i]
RECURSIVE gatherInsertion(_, _, _, _)
gatherInsertion(seq, alignment, i, acc) ==
  IF i < alignment.length /\ getBaseCode(seq, i) = CODE_GAP THEN
    LET alignCode == getBaseCode(alignment, i)
    IN gatherInsertion(seq, alignment, i + 1,
         acc \o (IF alignCode # CODE_GAP /\ alignCode # CODE_SPACE
                   THEN decodeBaseLower(alignment, i) ELSE <<"-">>))
  ELSE [sequence |-> acc, i |-> i]

\* insertionsAtPosition with one more insertion at insertPos
pushInsertion(ins, insertPos, info) ==
  IF insertPos \in DOMAIN ins
    THEN [ins EXCEPT ![insertPos] = Append(@, info)]
    ELSE [p \in DOMAIN ins \cup {insertPos} |->
            IF p = insertPos THEN <<info>> ELSE ins[p]]

\* the for loop over the columns of one alignment row
RECURSIVE walkRow(_, _, _, _, _, _, _, _)
walkRow(feature, alignment, row, opts, i, o, rowArray, ins) ==
  IF i >= alignment.length THEN [rowArray |-> rowArray, ins |-> ins]
  ELSE IF getBaseCode(feature.seq, i) # CODE_GAP THEN
    LET pos == feature.start + o - opts.start
        rlen == opts.end - opts.start
        written ==
          IF pos >= 0 /\ pos < rlen
            THEN [rowArray EXCEPT ![pos + 1] =
                    writtenChar(feature.seq, alignment, i,
                                opts.showAllLetters, @)]
            ELSE rowArray
    IN walkRow(feature, alignment, row, opts, i + 1, o + 1, written, ins)
  ELSE IF opts.includeInsertions THEN
    LET g == gatherInsertion(feature.seq, alignment, i, <<>>)
        insertPos == feature.start + o - opts.start
        rlen == opts.end - opts.start
        recorded ==
          IF Len(g.sequence) > 0 /\ insertPos >= 0 /\ insertPos <= rlen
            THEN pushInsertion(ins, insertPos,
                   [sequence |-> g.sequence, sampleIndex |-> row])
            ELSE ins
    IN walkRow(feature, alignment, row, opts, g.i, o, rowArray, recorded)
  ELSE walkRow(feature, alignment, row, opts, i + 1, o, rowArray, ins)

\* max insertion length at a position
RECURSIVE maxInsertionLen(_)
maxInsertionLen(insertions) ==
  IF Len(insertions) = 0 THEN 0
  ELSE Max(Len(insertions[1].sequence), maxInsertionLen(Tail(insertions)))

\* sampleInsertions.get(sampleIdx): the last insertion of the sample, <<>>
\* when it has none
RECURSIVE sampleInsertion(_, _)
sampleInsertion(insertions, sampleIdx) ==
  IF Len(insertions) = 0 THEN <<>>
  ELSE IF insertions[Len(insertions)].sampleIndex = sampleIdx
    THEN insertions[Len(insertions)].sequence
  ELSE sampleInsertion(SubSeq(insertions, 1, Len(insertions) - 1), sampleIdx)

padEnd(str, n) == str \o [k \in 1..(n - Len(str)) |-> "-"]

\* rowArray.splice(pos, 0, ...items)
spliceAt(rowArray, pos, items) ==
  SubSeq(rowArray, 1, Min(pos, Len(rowArray))) \o items
    \o SubSeq(rowArray, Min(pos, Len(rowArray)) + 1, Len(rowArray))

\* expandWithInsertions: positions from right to left
RECURSIVE expandWithInsertions(_, _)
expandWithInsertions(outputRowsArrays, insertionsAtPosition) ==
  IF DOMAIN insertionsAtPosition = {} THEN outputRowsArrays
  ELSE
    LET pos == CHOOSE p \in DOMAIN insertionsAtPosition :
                 \A p2 \in DOMAIN insertionsAtPosition : p2 <= p
        insertions == insertionsAtPosition[pos]
        maxLen == maxInsertionLen(insertions)
        expanded ==
          [r \in 1..Len(outputRowsArrays) |->
             spliceAt(outputRowsArrays[r], pos,
                      padEnd(sampleInsertion(insertions, r - 1), maxLen))]
    IN expandWithInsertions(expanded,
         [p \in DOMAIN insertionsAtPosition \ {pos} |->
            insertionsAtPosition[p]])

\* the feature: reference sequence and the rows of samples a1, a2 and a3 in
\* the order of Object.entries(alignments), every sequence encoded; the row
\* of a2 repeats the reference
FastaFeatures ==
  {[start |-> 0,
    seq |-> encodeSequence(t[1]),
    alignments |-> <<[sample |-> "a1", seq |-> encodeSequence(t[2])],
                     [sample |-> "a2", seq |-> encodeSequence(t[1])],
                     [sample |-> "a3", seq |-> encodeSequence(t[3])]>>] :
     t \in UNION {[1..n -> {"A", "-"}] \X [1..n -> {"C", "-"}]
                    \X [1..n -> {"T", "-"}] : n \in 1..MaxCols}}

\* the selected samples: a3 is never among them
SampleLists == {<<"a1", "a2">>, <<"a2">>}

FastaOptions ==
  [start : {0, 1}, end : {2}, showAllLetters : BOOLEAN,
   includeInsertions : BOOLEAN]

InitFasta ==
  /\ faFeature \in FastaFeatures
  /\ faSamples \in SampleLists
  /\ faOpts \in FastaOptions
  /\ faRows = [r \in 1..Len(faSamples) |->
                 [k \in 1..(faOpts.end - faOpts.start) |-> "-"]]
  /\ faIns = <<>> /\ faNext = 1 /\ fapc = "rows" /\ faOut = <<>>
  /\ TafIdle /\ NotFastaIdle

\* one iteration of `for (const [sample, val] of Object.entries(vals))`
\* for a sample of the samples list
ProcessSampleRow ==
  /\ fapc = "rows" /\ faNext <= Len(faFeature.alignments)
  /\ LET val == faFeature.alignments[faNext]
         row == sampleToRow(faSamples, val.sample)
         w == walkRow(faFeature, val.seq, row, faOpts, 0, 0,
                      faRows[row + 1], faIns)
     IN /\ row # 0 - 1
        /\ faRows' = [faRows EXCEPT ![row + 1] = w.rowArray]
        /\ faIns' = w.ins
  /\ faNext' = faNext + 1
  /\ UNCHANGED <<faFeature, faSamples, faOpts, fapc, faOut, tafVars, notFasta>>

\* the same iteration for a sample that is not in the samples list: continue
SkipSampleRow ==
  /\ fapc = "rows" /\ faNext <= Len(faFeature.alignments)
  /\ sampleToRow(faSamples, faFeature.alignments[faNext].sample) = 0 - 1
  /\ faNext' = faNext + 1
  /\ UNCHANGED <<faFeature, faSamples, faOpts, faRows, faIns, fapc, faOut,
                 tafVars, notFasta>>

\* after the loop: expandWithInsertions when insertions were recorded
ReturnExpanded ==
  /\ fapc = "rows" /\ faNext > Len(faFeature.alignments)
  /\ faOpts.includeInsertions /\ DOMAIN faIns # {}
  /\ faOut' = expandWithInsertions(faRows, faIns)
  /\ fapc' = "done"
  /\ UNCHANGED <<faFeature, faSamples, faOpts, faRows, faIns, faNext,
                 tafVars, notFasta>>

\* after the loop: the rows joined as they are
ReturnRows ==
  /\ fapc = "rows" /\ faNext > Len(faFeature.alignments)
  /\ ~(faOpts.includeInsertions /\ DOMAIN faIns # {})
  /\ faOut' = faRows
  /\ fapc' = "done"
  /\ UNCHANGED <<faFeature, faSamples, faOpts, faRows, faIns, faNext,
                 tafVars, notFasta>>

NextFasta == ProcessSampleRow \/ SkipSampleRow \/ ReturnExpanded \/ ReturnRows

SpecFasta == InitFasta /\ [][NextFasta]_vars

\* a selected sample has a base in a column where the reference has a gap
VisibleInsertion ==
  \E e \in 1..Len(faFeature.alignments) :
    /\ sampleToRow(faSamples, faFeature.alignments[e].sample) # 0 - 1
    /\ \E i \in 0..(faFeature.seq.length - 1) :
         /\ getBaseCode(faFeature.seq, i) = CODE_GAP
         /\ getBaseCode(faFeature.alignments[e].seq, i) # CODE_GAP
         /\ getBaseCode(faFeature.alignments[e].seq, i) # CODE_SPACE

\* C19: with includeInsertions, reference-gap columns in which no selected
\* sample has a base add no columns: every output row has length
\* L = region end - region start.
C19_HiddenInsertionsAddNothing ==
  (fapc = "done" /\ faOpts.includeInsertions /\ ~VisibleInsertion)
    => \A r \in 1..Len(faOut) : Len(faOut[r]) = faOpts.end - faOpts.start

----------------------------------------------------------------------------
(* SpecAdapter: one BgzipTaffyAdapter serving concurrent getFeatures and    *)
(* getRefNames calls.  setups lists the promises doSetup has created, fills *)
(* the promises the chunk cache's fill has created, cache maps a key to the *)
(* fill it holds, and queries holds each call's position and what its       *)
(* observer has received.                                                   *)

MaxQueries == 2

\* the .taf.gz file of the adapter: three blocks of h.1 in two bgzf blocks
AdapterFile == Layout(3, [k \in 1..3 |-> "a"], {2}, 30000)

\* the .tai file: one absolute row for each line
AdapterTaiText ==
  [i \in 1..3 |->
     LET e == EntryOf(i, {2}, 30000)
     IN TaiRow(HG1, ToDigits(e.chrStart),
               ToDigits(e.virtualOffset.blockPosition * 65536
                        + e.virtualOffset.dataPosition))]

\* readTaiFile: the loop over the rows, from the empty entries
RECURSIVE readTaiFile(_, _)
readTaiFile(st, text) ==
  IF text = <<>> THEN st.entries
  ELSE readTaiFile(readTaiLine(st, Head(text)), Tail(text))

\* a setup promise: Promise.all of the index read and the header read
SetupPromise(state, tai, hdr, index, encoded) ==
  [state |-> state, tai |-> tai, hdr |-> hdr, index |-> index,
   runLengthEncodeBases |-> encoded]

\* setupPre that starts doSetup on every call
setupPreNoMemo(p, all) ==
  [setupP |-> Len(all) + 1,
   setups |-> Append(all, SetupPromise("pending", "pending", "pending",
                                       <<>>, FALSE))]

\* setupPre: doSetup starts only when no promise is memoized
setupPre(p, all) ==
  IF p = 0
    THEN [setupP |-> Len(all) + 1,
          setups |-> Append(all, SetupPromise("pending", "pending", "pending",
                                              <<>>, FALSE))]
    ELSE [setupP |-> p, setups |-> all]

\* Promise.all settles: resolved once both reads are done
doSetup(s) ==
  IF s.state = "pending" /\ s.tai = "ok" /\ s.hdr # "pending"
    THEN [s EXCEPT !.state = "resolved"]
    ELSE s

\* a call of the adapter, as its caller made it
Query(kind, refName, region) ==
  [kind |-> kind, refName |-> refName, region |-> region, pc |-> "new",
   setup |-> 0, fill |-> 0, pair |-> <<>>, token |-> FALSE,
   cancelledAt |-> "", out |-> <<>>, completed |-> FALSE, errors |-> 0,
   names |-> {}]

QueryChoices ==
  {Query("features", <<"1">>, r) :
     r \in {Region(0, 3), Region(3, 5)}}
  \cup {Query("features", <<"9">>, Region(0, 5)),
        Query("refNames", <<>>, Region(0, 0))}

\* a call whose awaited promise has settled: its continuation is a queued
\* microtask
Resumable(q) ==
  \/ /\ queries[q].pc = "awaitSetup"
     /\ setups[queries[q].setup].state # "pending"
  \/ /\ queries[q].pc = "awaitFill"
     /\ fills[queries[q].fill].state # "pending"

\* run to completion: a new call or the completion of a read is a task, and
\* a task starts only when no continuation is queued
MicrotasksDone == \A q \in 1..Len(queries) : ~Resumable(q)

InitAdapter ==
  /\ setupP = 0 /\ setups = <<>> /\ cache = <<>> /\ fills = <<>>
  /\ queries = <<>>
  /\ TafIdle /\ NotAdapterIdle

\* getFeatures or getRefNames is called: both start with setup()
SubscribeQuery ==
  /\ Len(queries) < MaxQueries
  /\ MicrotasksDone
  /\ \E c \in QueryChoices :
       LET r == setupPre(setupP, setups)
       IN /\ setupP' = r.setupP
          /\ setups' = r.setups
          /\ queries' = Append(queries, [c EXCEPT !.pc = "awaitSetup",
                                                  !.setup = r.setupP])
  /\ UNCHANGED <<cache, fills, tafVars, notAdapter>>

\* readTaiFile returns the index
ReadTaiOk ==
  \E i \in 1..Len(setups) :
    /\ MicrotasksDone
    /\ setups[i].state = "pending" /\ setups[i].tai = "pending"
    /\ setups' = [setups EXCEPT ![i] =
         doSetup([@ EXCEPT !.tai = "ok",
                           !.index = readTaiFile(TaiState(<<>>, <<>>, 0, 0),
                                                 AdapterTaiText)])]
    /\ UNCHANGED <<setupP, cache, fills, queries, tafVars, notAdapter>>

\* a failure handler that leaves the memoized promise in place
ReadTaiFailKeepsMemo ==
  \E i \in 1..Len(setups) :
    /\ MicrotasksDone
    /\ setups[i].state = "pending" /\ setups[i].tai = "pending"
    /\ setups' = [setups EXCEPT ![i] = [@ EXCEPT !.tai = "failed",
                                                 !.state = "rejected"]]
    /\ UNCHANGED <<setupP, cache, fills, queries, tafVars, notAdapter>>

\* readTaiFile throws: doSetup rejects and the catch of setupPre clears the
\* memoized promise
ReadTaiFail ==
  \E i \in 1..Len(setups) :
    /\ MicrotasksDone
    /\ setups[i].state = "pending" /\ setups[i].tai = "pending"
    /\ setups' = [setups EXCEPT ![i] = [@ EXCEPT !.tai = "failed",
                                                 !.state = "rejected"]]
    /\ setupP' = 0
    /\ UNCHANGED <<cache, fills, queries, tafVars, notAdapter>>

\* readHeader returns whether the first line has run_length_encode_bases:1
ReadHeaderOk ==
  \E i \in 1..Len(setups) :
    /\ MicrotasksDone
    /\ setups[i].state = "pending" /\ setups[i].hdr = "pending"
    /\ setups' = [setups EXCEPT ![i] =
         doSetup([@ EXCEPT !.hdr = "ok", !.runLengthEncodeBases = FALSE])]
    /\ UNCHANGED <<setupP, cache, fills, queries, tafVars, notAdapter>>

\* the read of the header throws: readHeader catches it and returns false
ReadHeaderFail ==
  \E i \in 1..Len(setups) :
    /\ MicrotasksDone
    /\ setups[i].state = "pending" /\ setups[i].hdr = "pending"
    /\ setups' = [setups EXCEPT ![i] =
         doSetup([@ EXCEPT !.hdr = "failed", !.runLengthEncodeBases = FALSE])]
    /\ UNCHANGED <<setupP, cache, fills, queries, tafVars, notAdapter>>

\* byteRanges[query.refName], undefined read as no records
recordsOfFallback(index, refName) ==
  IF refName \in DOMAIN index THEN index[refName]
  ELSE index[CHOOSE name \in DOMAIN index : TRUE]

recordsOf(index, refName) ==
  IF refName \in DOMAIN index THEN index[refName] ELSE <<>>

\* the signal handed to cache.get: the number of the query whose token it
\* follows, 0 for none
signalOfToken(q) == q

\* getLines hands no signal to cache.get
signalOf(q) == 0

\* the fill of the cache: read, unzip, slice and parseTafBlocks
fill(pair, runLengthEncodeBases) ==
  parseTafBlocks(sliceOf(readAndUnzip(AdapterFile, pair), pair).lines,
                 runLengthEncodeBases)

\* an entry the cache has created for a key
ChunkFill(key, pair, encoded, signals) ==
  [key |-> key, pair |-> pair, runLengthEncodeBases |-> encoded,
   state |-> "pending", value |-> <<>>, signals |-> signals,
   aborted |-> FALSE]

\* a cache lookup that returns whatever entry the cache holds
cacheGetAny(store, all, key) ==
  IF DOMAIN store # {}
    THEN store[CHOOSE k \in DOMAIN store : TRUE]
    ELSE 0

\* the entry cache.get returns for a key, 0 when it has to fill: an entry
\* aborted before it settled is not reused
cacheGet(store, all, key) ==
  IF key \in DOMAIN store
     /\ ~(all[store[key]].aborted /\ all[store[key]].state = "pending")
    THEN store[key]
    ELSE 0

\* cache.set(key, entry)
cacheSet(store, key, f) ==
  [k \in DOMAIN store \cup {key} |-> IF k = key THEN f ELSE store[k]]

\* cache.evict(key, entry): the key is deleted when it still holds entry
cacheEvict(store, key, f) ==
  IF key \in DOMAIN store /\ store[key] = f
    THEN [k \in DOMAIN store \ {key} |-> store[k]]
    ELSE store

\* an entry is aborted once every caller attached to it has aborted and
\* none attached without a signal
abortedBy(f, qs) ==
  /\ f.state = "pending"
  /\ 0 \notin f.signals
  /\ \A sig \in f.signals : qs[sig].token

\* the catch of getFeatures: observer.error(e)
observerError(qry) ==
  [qry EXCEPT !.pc = "failed", !.errors = @ + 1]

\* the for loop of getFeatures, statusCallback and observer.complete()
observerComplete(qry, feats) ==
  [qry EXCEPT !.pc = "done", !.completed = TRUE,
              !.out = @ \o deliverFeatures(feats, qry.region)]

\* await this.setup() throws in getFeatures
SetupRejectedFor ==
  \E q \in 1..Len(queries) :
    /\ queries[q].pc = "awaitSetup" /\ queries[q].kind = "features"
    /\ setups[queries[q].setup].state = "rejected"
    /\ queries' = [queries EXCEPT ![q] = observerError(@)]
    /\ UNCHANGED <<setupP, setups, cache, fills, tafVars, notAdapter>>

\* getRefNames: the keys of the index once setup settles
ReturnRefNames ==
  \E q \in 1..Len(queries) :
    /\ queries[q].pc = "awaitSetup" /\ queries[q].kind = "refNames"
    /\ setups[queries[q].setup].state # "pending"
    /\ queries' = [queries EXCEPT ![q] =
         IF setups[queries[q].setup].state = "rejected"
           THEN [@ EXCEPT !.pc = "failed", !.errors = @ + 1]
           ELSE [@ EXCEPT !.pc = "done",
                          !.names = DOMAIN setups[queries[q].setup].index]]
    /\ UNCHANGED <<setupP, setups, cache, fills, tafVars, notAdapter>>

\* getLines returns undefined: no records for the refName
CompleteWithoutRecords ==
  \E q \in 1..Len(queries) :
    /\ queries[q].pc = "awaitSetup" /\ queries[q].kind = "features"
    /\ setups[queries[q].setup].state = "resolved"
    /\ getLines(queries[q].region,
                recordsOf(setups[queries[q].setup].index, queries[q].refName))
         = <<>>
    /\ queries' = [queries EXCEPT ![q] = observerComplete(@, <<>>)]
    /\ UNCHANGED <<setupP, setups, cache, fills, tafVars, notAdapter>>

\* getLines calls cache.get with the key of its pair of entries
LookUpChunk ==
  \E q \in 1..Len(queries) :
    /\ queries[q].pc = "awaitSetup" /\ queries[q].kind = "features"
    /\ setups[queries[q].setup].state = "resolved"
    /\ LET found == getLines(queries[q].region,
                             recordsOf(setups[queries[q].setup].index,
                                       queries[q].refName))
       IN /\ found # <<>>
          /\ LET pair == found[1]
                 key == cacheKey(pair)
                 hit == cacheGet(cache, fills, key)
                 f == IF hit = 0 THEN Len(fills) + 1 ELSE hit
             IN /\ fills' =
                     IF hit = 0
                       THEN Append(fills,
                              ChunkFill(key, pair,
                                setups[queries[q].setup].runLengthEncodeBases,
                                {signalOf(q)}))
                       ELSE [fills EXCEPT ![hit].signals =
                               IF fills[hit].state = "pending"
                                 THEN @ \cup {signalOf(q)} ELSE @]
                /\ cache' = IF hit = 0 THEN cacheSet(cache, key, f) ELSE cache
                /\ queries' = [queries EXCEPT ![q] =
                     [@ EXCEPT !.pc = "awaitFill", !.fill = f,
                               !.pair = <<pair>>]]
    /\ UNCHANGED <<setupP, setups, tafVars, notAdapter>>

\* the read, unzip and parse of a fill succeed
FillResolves ==
  \E f \in 1..Len(fills) :
    /\ MicrotasksDone
    /\ fills[f].state = "pending"
    /\ fills' = [fills EXCEPT ![f] =
         [@ EXCEPT !.state = "resolved",
                   !.value = fill(fills[f].pair, fills[f].runLengthEncodeBases)]]
    /\ UNCHANGED <<setupP, setups, cache, queries, tafVars, notAdapter>>

\* the read or the unzip of a fill throws: the cache evicts the entry
FillRejects ==
  \E f \in 1..Len(fills) :
    /\ MicrotasksDone
    /\ fills[f].state = "pending"
    /\ fills' = [fills EXCEPT ![f].state = "rejected"]
    /\ cache' = cacheEvict(cache, fills[f].key, f)
    /\ UNCHANGED <<setupP, setups, queries, tafVars, notAdapter>>

\* getLines returns the features of the fill and getFeatures delivers them
DeliverChunk ==
  \E q \in 1..Len(queries) :
    /\ queries[q].pc = "awaitFill"
    /\ fills[queries[q].fill].state = "resolved"
    /\ queries' = [queries EXCEPT ![q] =
         IF signalOf(q) # 0 /\ queries[q].token
           THEN observerError(@)
           ELSE observerComplete(@, fills[queries[q].fill].value)]
    /\ UNCHANGED <<setupP, setups, cache, fills, tafVars, notAdapter>>

\* await getLines throws in getFeatures
ChunkRejectedFor ==
  \E q \in 1..Len(queries) :
    /\ queries[q].pc = "awaitFill"
    /\ fills[queries[q].fill].state = "rejected"
    /\ queries' = [queries EXCEPT ![q] = observerError(@)]
    /\ UNCHANGED <<setupP, setups, cache, fills, tafVars, notAdapter>>

\* the caller triggers the stop token of a running getFeatures
CancelQuery ==
  \E q \in 1..Len(queries) :
    /\ queries[q].kind = "features"
    /\ queries[q].pc \in {"awaitSetup", "awaitFill"}
    /\ ~queries[q].token
    /\ queries' = [queries EXCEPT ![q].token = TRUE,
                                  ![q].cancelledAt = queries[q].pc]
    /\ fills' = [f \in 1..Len(fills) |->
                   IF abortedBy(fills[f], queries')
                     THEN [fills[f] EXCEPT !.aborted = TRUE]
                     ELSE fills[f]]
    /\ UNCHANGED <<setupP, setups, cache, tafVars, notAdapter>>

NextAdapter ==
  \/ SubscribeQuery
  \/ ReadTaiOk \/ ReadTaiFail \/ ReadHeaderOk \/ ReadHeaderFail
  \/ SetupRejectedFor \/ ReturnRefNames
  \/ CompleteWithoutRecords \/ LookUpChunk
  \/ FillResolves \/ FillRejects
  \/ DeliverChunk \/ ChunkRejectedFor \/ CancelQuery

SpecAdapter == InitAdapter /\ [][NextAdapter]_vars

\* the calls that have received the result of setup()
HasIndex(q) ==
  /\ queries[q].pc \in {"awaitFill", "done", "failed"}
  /\ setups[queries[q].setup].state = "resolved"

\* C14: whatever the interleaving of getFeatures and getRefNames calls, at
\* most one doSetup exists that has not failed, every call that received an
\* index received the one of the same setup, and the index of a resolved
\* setup is what readTaiFile built and no step changes it.
C14_SetupOnce ==
  /\ [](/\ Cardinality({i \in 1..Len(setups) :
                          setups[i].state # "rejected"}) <= 1
        /\ \A q1, q2 \in 1..Len(queries) :
             (HasIndex(q1) /\ HasIndex(q2))
               => queries[q1].setup = queries[q2].setup)
  /\ [][\A i \in 1..Len(setups) :
          setups[i].state = "resolved"
            => /\ i <= Len(setups')
               /\ setups'[i].index = setups[i].index]_vars

C14_Witness ==
  /\ Len(queries) = 2
  /\ HasIndex(1) /\ HasIndex(2)
  /\ queries[1].kind # queries[2].kind
  /\ \E q \in 1..2 : queries[q].names = {<<"1">>}

\* a getFeatures call whose refName has no entries in the index it received
AbsentRefName(q) ==
  /\ queries[q].kind = "features"
  /\ queries[q].pc # "awaitSetup"
  /\ setups[queries[q].setup].state = "resolved"
  /\ queries[q].refName \notin DOMAIN setups[queries[q].setup].index

FailedReadFor(q) ==
  \/ setups[queries[q].setup].tai = "failed"
  \/ setups[queries[q].setup].hdr = "failed"
  \/ (queries[q].fill # 0 /\ fills[queries[q].fill].state = "rejected")

\* C15: a getFeatures call that has ended and for which the read of the
\* index file, of the TAF header or of the chunk failed has received exactly
\* one error and no completion.
C15_AnyFailureSurfaces ==
  \A q \in 1..Len(queries) :
    (/\ queries[q].kind = "features"
     /\ queries[q].pc \in {"done", "failed"}
     /\ FailedReadFor(q))
      => queries[q].errors = 1 /\ ~queries[q].completed

\* the getFeatures calls that have handed a pair of entries to the cache
HasLookedUp(q) == queries[q].kind = "features" /\ queries[q].fill # 0

\* C11: of the fills started for one (firstEntry, nextEntry) pair at most
\* one is in flight or resolved; every call that looked the pair up waits on
\* or was served by a fill of exactly that pair, calls of the same pair share
\* the fill unless it failed, and a call that has completed received the
\* blocks of that fill's value, which is the read, unzip and parse of the
\* pair.
C11_SingleFillPerPair ==
  /\ \A f1, f2 \in 1..Len(fills) :
       (/\ fills[f1].pair = fills[f2].pair
        /\ fills[f1].state # "rejected" /\ fills[f2].state # "rejected")
         => f1 = f2
  /\ \A f \in 1..Len(fills) :
       fills[f].state = "resolved"
         => fills[f].value = fill(fills[f].pair, fills[f].runLengthEncodeBases)
  /\ \A q \in 1..Len(queries) :
       HasLookedUp(q)
         => /\ fills[queries[q].fill].pair = queries[q].pair[1]
            /\ queries[q].completed
                 => queries[q].out
                      = deliverFeatures(fills[queries[q].fill].value,
                                        queries[q].region)

\* two calls of the same pair were both served by the one fill of the pair
C11_Witness ==
  /\ Len(queries) = 2 /\ Len(fills) = 1
  /\ HasLookedUp(1) /\ HasLookedUp(2)
  /\ queries[1].fill = queries[2].fill
  /\ queries[1].completed /\ queries[2].completed
  /\ Len(queries[1].out) = 2

\* C12: whichever calls are cancelled, no fill is aborted, a fill that has
\* not failed stays the entry cache.get returns for its key, and every call
\* that waited on a fill that resolved, or looked its key up later, has
\* completed with the blocks of its value and no error.
C12_CancelLeavesFill ==
  /\ \A f \in 1..Len(fills) :
       /\ ~fills[f].aborted
       /\ fills[f].state # "rejected"
            => cacheGet(cache, fills, fills[f].key) = f
  /\ \A q \in 1..Len(queries) :
       (/\ HasLookedUp(q)
        /\ fills[queries[q].fill].state = "resolved"
        /\ queries[q].pc # "awaitFill")
         => /\ queries[q].completed /\ queries[q].errors = 0
            /\ queries[q].out = deliverFeatures(fills[queries[q].fill].value,
                                                queries[q].region)

\* a call was cancelled while it waited on the fill, and the other call of
\* the same key received the fill's blocks
C12_Witness ==
  /\ Len(queries) = 2 /\ Len(fills) = 1
  /\ \E q1, q2 \in 1..2 :
       /\ queries[q1].cancelledAt = "awaitFill"
       /\ queries[q1].fill = 1 /\ queries[q2].fill = 1
       /\ ~queries[q2].token
       /\ queries[q2].completed /\ Len(queries[q2].out) > 0

\* C13: no step delivers a block to a getFeatures call whose stop token has
\* been triggered.
C13_NoBlockAfterCancel ==
  [][\A q \in 1..Len(queries) :
       queries[q].token => queries'[q].out = queries[q].out]_vars

\* a call that awaited a setup attempt that failed
AwaitedFailedSetup(q) ==
  /\ queries[q].setup # 0
  /\ setups[queries[q].setup].state = "rejected"

\* C28: when a setup attempt fails, a caller that awaited it receives
\* nothing but the failure, the memoized promise never holds a failed
\* attempt, the next call starts a new attempt, and the memoized promise is
\* cleared only by the failure of the attempt it holds.
C28_SetupFailureClearsMemo ==
  /\ [](/\ \A q \in 1..Len(queries) :
             AwaitedFailedSetup(q)
               => /\ queries[q].pc \in {"awaitSetup", "failed"}
                  /\ queries[q].pc = "failed" => queries[q].errors = 1
                  /\ queries[q].out = <<>> /\ ~queries[q].completed
                  /\ MicrotasksDone => queries[q].pc = "failed"
        /\ setupP # 0 => setups[setupP].state # "rejected")
  /\ [][/\ (setupP # 0 /\ setupP' # setupP)
             => /\ setupP' = 0
                /\ setups[setupP].state = "pending"
                /\ setups'[setupP].state = "rejected"
        /\ (setupP = 0 /\ Len(queries') > Len(queries))
             => /\ setupP' = Len(setups) + 1
                /\ setups'[setupP'].state = "pending"
                /\ queries'[Len(queries')].setup = setupP']_vars

\* a call has observed the failure of the first attempt and the next call
\* awaits a second attempt
C28_Witness ==
  /\ Len(setups) = 2 /\ Len(queries) = 2
  /\ setups[1].state = "rejected" /\ setupP = 2
  /\ queries[1].setup = 1 /\ queries[1].pc = "failed"
  /\ queries[1].errors = 1
  /\ queries[2].setup = 2

----------------------------------------------------------------------------
(* SpecStream: BigMafAdapter.getFeatures in its two versions, the one that  *)
(* collects the sub-adapter's records with toArray() and the one that       *)
(* subscribes to them.  A record's mafBlock is held as its ';'-separated    *)
(* rows, a row as its fields.                                               *)

MaxRecords == 3

MafRow(type, organismChr, seq) ==
  [type |-> type, organismChr |-> organismChr, seq |-> seq]

\* the rows of a mafBlock that start with 's'
sRowsOf(mafBlock) == SelectSeq(mafBlock, LAMBDA row : row.type = "s")

\* the body of the loop over a record: referenceSeq is the first 's' row,
\* alignments[org] is assigned by every 's' row of org
mafBlockToFeature(record) ==
  LET rows == sRowsOf(record.mafBlock)
      orgOf(j) == parseAssemblyAndChrSimple(rows[j].organismChr).assemblyName
  IN [id |-> record.id,
      seq |-> IF rows = <<>> THEN Undefined ELSE encodeSequence(rows[1].seq),
      alignments |->
        [org \in {orgOf(j) : j \in 1..Len(rows)} |->
           LET last == CHOOSE j \in 1..Len(rows) :
                         /\ orgOf(j) = org
                         /\ \A k \in (j + 1)..Len(rows) : orgOf(k) # org
           IN [chr |-> parseAssemblyAndChrSimple(rows[last].organismChr).chr,
               seq |-> encodeSequence(rows[last].seq)]]]

\* the mafBlock fields the sub-adapter can deliver
MafBlocks ==
  {<<MafRow("s", HG1, <<"A", "C">>), MafRow("s", MM1, <<"A", "-">>)>>,
   <<MafRow("s", HG1, <<"G">>), MafRow("s", HG2, <<"T">>)>>,
   <<MafRow("q", HG1, <<"9">>), MafRow("s", MM1, <<"C">>)>>}

\* what the sub-adapter delivers for the query: up to MaxRecords records
Upstreams ==
  UNION {[1..n -> MafBlocks] : n \in 0..MaxRecords}

InitStream ==
  /\ bmVersion \in {"toArray", "subscribe"}
  /\ \E u \in Upstreams :
       bmUpstream = [i \in 1..Len(u) |-> [id |-> i, mafBlock |-> u[i]]]
  /\ bmEmitted = 0 /\ bmBuffer = <<>> /\ bmOut = <<>> /\ bmpc = "setup"
  /\ TafIdle /\ NotStreamIdle

\* setup resolves and the sub-adapter's observable is subscribed to
SubscribeUpstream ==
  /\ bmpc = "setup"
  /\ bmpc' = "streaming"
  /\ UNCHANGED <<bmVersion, bmUpstream, bmEmitted, bmBuffer, bmOut,
                 tafVars, notStream>>

\* toArray() takes the next record of the sub-adapter
CollectRecord ==
  /\ bmpc = "streaming" /\ bmVersion = "toArray"
  /\ bmEmitted < Len(bmUpstream)
  /\ bmEmitted' = bmEmitted + 1
  /\ bmBuffer' = Append(bmBuffer, bmUpstream[bmEmitted + 1])
  /\ UNCHANGED <<bmVersion, bmUpstream, bmOut, bmpc, tafVars, notStream>>

\* the sub-adapter completes: firstValueFrom resolves with the array
ToArrayResolves ==
  /\ bmpc = "streaming" /\ bmVersion = "toArray"
  /\ bmEmitted = Len(bmUpstream)
  /\ bmpc' = "processing"
  /\ UNCHANGED <<bmVersion, bmUpstream, bmEmitted, bmBuffer, bmOut,
                 tafVars, notStream>>

\* the loop over the collected features, then observer.complete()
ProcessCollected ==
  /\ bmpc = "processing"
  /\ bmOut' = [i \in 1..Len(bmBuffer) |-> mafBlockToFeature(bmBuffer[i])]
  /\ bmpc' = "done"
  /\ UNCHANGED <<bmVersion, bmUpstream, bmEmitted, bmBuffer,
                 tafVars, notStream>>

\* the next callback of the subscription: decode and observer.next
StreamRecord ==
  /\ bmpc = "streaming" /\ bmVersion = "subscribe"
  /\ bmEmitted < Len(bmUpstream)
  /\ bmEmitted' = bmEmitted + 1
  /\ bmOut' = Append(bmOut, mafBlockToFeature(bmUpstream[bmEmitted + 1]))
  /\ UNCHANGED <<bmVersion, bmUpstream, bmBuffer, bmpc, tafVars, notStream>>

\* the complete callback resolves the promise; observer.complete()
StreamCompletes ==
  /\ bmpc = "streaming" /\ bmVersion = "subscribe"
  /\ bmEmitted = Len(bmUpstream)
  /\ bmpc' = "done"
  /\ UNCHANGED <<bmVersion, bmUpstream, bmEmitted, bmBuffer, bmOut,
                 tafVars, notStream>>

NextStream ==
  \/ SubscribeUpstream
  \/ CollectRecord \/ ToArrayResolves \/ ProcessCollected
  \/ StreamRecord \/ StreamCompletes

SpecStream == InitStream /\ [][NextStream]_vars

\* C20: once the sub-adapter has delivered all of two or more records, the
\* blocks of all but possibly the last have been delivered, and the adapter
\* never holds every record of a non-empty result with no block delivered.
C20_DeliveredIncrementally ==
  /\ (bmEmitted = Len(bmUpstream) /\ Len(bmUpstream) >= 2)
       => Len(bmOut) >= Len(bmUpstream) - 1
  /\ (Len(bmUpstream) >= 1 /\ Len(bmBuffer) = Len(bmUpstream))
       => Len(bmOut) >= 1

----------------------------------------------------------------------------
(* SpecCache: getFeatures calls made one after the other on one adapter,    *)
(* each run to its completion with reads that succeed.  ccRecords is the    *)
(* index of the refName, ccStore and ccFills the chunk cache, ccAsked the   *)
(* calls made with the entry that served each and the blocks it delivered.  *)

MaxAsks == 3

AskPoints == {0, 1, 3, 5}

AskRegions ==
  {r \in {Region(a, b) : a, b \in AskPoints} : r.start < r.end}

InitCache ==
  /\ \E indexed \in SUBSET (1..3) :
       /\ indexed # {}
       /\ ccRecords = IndexOver(indexed, {2}, 30000)
  /\ ccStore = <<>> /\ ccFills = <<>> /\ ccAsked = <<>>
  /\ TafIdle /\ NotChunkIdle

\* what one call leaves behind
Asked(region, pair, f, hit, out) ==
  [region |-> region, pair |-> pair, fill |-> f, hit |-> hit, out |-> out]

\* getFeatures whose key is not in the cache: the fill runs, its value is
\* stored and the overlapping blocks are delivered
AskFresh ==
  /\ Len(ccAsked) < MaxAsks
  /\ \E region \in AskRegions :
       LET pair == getLines(region, ccRecords)[1]
           key == cacheKey(pair)
           f == Len(ccFills) + 1
           value == fill(pair, FALSE)
       IN /\ cacheGet(ccStore, ccFills, key) = 0
          /\ ccFills' = Append(ccFills,
                          [ChunkFill(key, pair, FALSE, {signalOf(0)})
                             EXCEPT !.state = "resolved", !.value = value])
          /\ ccStore' = cacheSet(ccStore, key, f)
          /\ ccAsked' = Append(ccAsked,
                          Asked(region, pair, f, FALSE,
                                deliverFeatures(value, region)))
  /\ UNCHANGED <<ccRecords, tafVars, notChunk>>

\* getFeatures whose key is in the cache: the blocks are delivered from the
\* stored value
AskCached ==
  /\ Len(ccAsked) < MaxAsks
  /\ \E region \in AskRegions :
       LET pair == getLines(region, ccRecords)[1]
           hit == cacheGet(ccStore, ccFills, cacheKey(pair))
       IN /\ hit # 0
          /\ ccAsked' = Append(ccAsked,
                          Asked(region, pair, hit, TRUE,
                                deliverFeatures(ccFills[hit].value, region)))
  /\ UNCHANGED <<ccRecords, ccStore, ccFills, tafVars, notChunk>>

NextCache == AskFresh \/ AskCached

SpecCache == InitCache /\ [][NextCache]_vars

\* the pairs of entries of the index
IndexPairs ==
  {[firstEntry |-> ccRecords[i], nextEntry |-> ccRecords[j]] :
     i, j \in 1..Len(ccRecords)}

\* C27: every call, served from the cache or not, delivers the blocks a call
\* on an empty cache delivers for its region; the value an entry holds is
\* the fill of the pair of its key, whatever the region that started it;
\* distinct pairs of index entries have distinct keys; and no call changes
\* an entry the cache holds.
C27_CachedEqualsFresh ==
  /\ [](/\ \A a \in 1..Len(ccAsked) :
             ccAsked[a].out
               = deliverFeatures(
                   fill(getLines(ccAsked[a].region, ccRecords)[1], FALSE),
                   ccAsked[a].region)
        /\ \A f \in 1..Len(ccFills) :
             /\ ccFills[f].key = cacheKey(ccFills[f].pair)
             /\ ccFills[f].value = fill(ccFills[f].pair, FALSE)
        /\ \A p1, p2 \in IndexPairs :
             cacheKey(p1) = cacheKey(p2) => p1 = p2)
  /\ [][\A f \in 1..Len(ccFills) : ccFills'[f] = ccFills[f]]_vars

\* a call was served from the entry that a call with other bounds filled,
\* and the two received different blocks
C27_Witness ==
  \E a, b \in 1..Len(ccAsked) :
    /\ a < b
    /\ ~ccAsked[a].hit /\ ccAsked[b].hit
    /\ ccAsked[a].fill = ccAsked[b].fill
    /\ ccAsked[a].region # ccAsked[b].region
    /\ ccAsked[a].out # ccAsked[b].out
    /\ Len(ccAsked[b].out) > 0

----------------------------------------------------------------------------
(* SpecTabix: MafTabixAdapter.getFeatures.  mtRecords are the records the   *)
(* tabix sub-adapter emits for the query, each held as the ','-separated    *)
(* rows of its field5 and a row as its ':'-separated parts; mtConf holds    *)
(* refAssemblyName and the query's assemblyName; mtFirstFound is the       *)
(* variable firstAssemblyNameFound, declared once for the query.            *)

MaxTabixRecords == 2

\* parseAssemblyAndChr: the part between the first two dots, when numeric,
\* belongs to the assembly name
parseAssemblyAndChr(assemblyAndChr) ==
  LET firstDotIndex == IndexOf(assemblyAndChr, ".")
      secondDotIndex == IndexFrom(assemblyAndChr, ".", firstDotIndex + 2)
      secondPart == Slice(assemblyAndChr, firstDotIndex + 1, secondDotIndex)
      total == Len(assemblyAndChr)
  IN IF firstDotIndex = 0 - 1
       THEN [assemblyName |-> assemblyAndChr, chr |-> <<>>]
     ELSE IF secondDotIndex = 0 - 1
       THEN [assemblyName |-> Slice(assemblyAndChr, 0, firstDotIndex),
             chr |-> Slice(assemblyAndChr, firstDotIndex + 1, total)]
     ELSE IF IsDigits(secondPart)
       THEN [assemblyName |-> Slice(assemblyAndChr, 0, secondDotIndex),
             chr |-> Slice(assemblyAndChr, secondDotIndex + 1, total)]
     ELSE [assemblyName |-> Slice(assemblyAndChr, 0, firstDotIndex),
           chr |-> Slice(assemblyAndChr, firstDotIndex + 1, total)]

\* one row of field5
TabixRow(assemblyAndChr, seq) == [assemblyAndChr |-> assemblyAndChr, seq |-> seq]

\* the rows that pass `if (!assemblyAndChr || !seq) continue` and
\* `if (assemblyName)`
StoredRows(data) ==
  SelectSeq(data, LAMBDA row :
    /\ row.assemblyAndChr # <<>> /\ row.seq # <<>>
    /\ parseAssemblyAndChr(row.assemblyAndChr).assemblyName # <<>>)

\* the loop over the rows of one record: alignments[assemblyName] is
\* assigned by every stored row, the last one stays
tabixAlignments(data) ==
  LET rows == StoredRows(data)
      nameOf(j) == parseAssemblyAndChr(rows[j].assemblyAndChr).assemblyName
  IN [name \in {nameOf(j) : j \in 1..Len(rows)} |->
        LET last == CHOOSE j \in 1..Len(rows) :
                      /\ nameOf(j) = name
                      /\ \A k \in 1..Len(rows) : nameOf(k) = name => k <= j
        IN [chr |-> parseAssemblyAndChr(rows[last].assemblyAndChr).chr,
            seq |-> encodeSequence(rows[last].seq)]]

\* firstAssemblyNameFound after the loop over the rows of one record: set
\* by the first stored row while it is still ''
firstFoundAfter(found, data) ==
  IF found = <<>> /\ Len(StoredRows(data)) > 0
    THEN parseAssemblyAndChr(StoredRows(data)[1].assemblyAndChr).assemblyName
    ELSE found

TabixRows ==
  {TabixRow(HG1, <<"A">>), TabixRow(MM1, <<"C">>),
   TabixRow(<<"h", ".", "1", ".", "c">>, <<"G">>), TabixRow(MM1, <<>>)}

TabixData == UNION {[1..n -> TabixRows] : n \in 1..2}

InitTabix ==
  /\ \E n \in 0..MaxTabixRecords : mtRecords \in [1..n -> TabixData]
  /\ \E ref \in {Undefined, <<"h">>}, asm \in {<<"h">>, <<"r">>} :
       mtConf = [refAssemblyName |-> ref, assemblyName |-> asm]
  /\ mtNext = 0 /\ mtFirstFound = <<>> /\ mtOut = <<>>
  /\ mtpc = "new"
  /\ TafIdle /\ NotTabixIdle

\* getFeatures: firstAssemblyNameFound = '' and the subscription to the
\* sub-adapter
SubscribeTabix ==
  /\ mtpc = "new"
  /\ mtFirstFound' = <<>>
  /\ mtNext' = 1
  /\ mtpc' = "streaming"
  /\ UNCHANGED <<mtRecords, mtConf, mtOut, tafVars, notTabix>>

\* the next callback: the rows of the record are read and the feature is
\* emitted
NextTabixRecord ==
  /\ mtpc = "streaming" /\ mtNext <= Len(mtRecords)
  /\ LET data == mtRecords[mtNext]
         alignments == tabixAlignments(data)
         found == firstFoundAfter(mtFirstFound, data)
     IN /\ mtFirstFound' = found
        /\ mtOut' = Append(mtOut,
             [id |-> mtNext, alignments |-> alignments,
              seq |-> selectReferenceSequence(alignments,
                        mtConf.refAssemblyName, mtConf.assemblyName, found)])
  /\ mtNext' = mtNext + 1
  /\ UNCHANGED <<mtRecords, mtConf, mtpc, tafVars, notTabix>>

\* the complete callback: observer.complete()
CompleteTabix ==
  /\ mtpc = "streaming" /\ mtNext > Len(mtRecords)
  /\ mtpc' = "done"
  /\ UNCHANGED <<mtRecords, mtConf, mtNext, mtFirstFound, mtOut,
                 tafVars, notTabix>>

NextTabix == SubscribeTabix \/ NextTabixRecord \/ CompleteTabix

SpecTabix == InitTabix /\ [][NextTabix]_vars

\* the first assembly observed in the row list of a record, '' when no row
\* is stored
FirstAssemblyOf(data) == firstFoundAfter(<<>>, data)

\* C29: the reference sequence of every block yielded is the one selected
\* with the first assembly of that block's own row list as the fallback key:
\* when neither refAssemblyName nor the query's assemblyName keys the block's
\* row map, it is the sequence of the block's first assembly.
C29_FallbackIsFirstOfSameBlock ==
  \A k \in 1..Len(mtOut) :
    mtOut[k].seq
      = selectReferenceSequence(mtOut[k].alignments, mtConf.refAssemblyName,
                                mtConf.assemblyName,
                                FirstAssemblyOf(mtRecords[k]))

----------------------------------------------------------------------------
(* SpecNamed: getFeatures for a refName on a TAF file that holds the blocks *)
(* of sequence h.1 followed by the blocks of sequence h.2, each block       *)
(* opened by a coordinate line that is indexed.  nmFile is the file in bgzf *)
(* blocks, nmIndex the index readTaiFile builds from its .tai file.         *)

MaxNamedLines == 3

\* line k of a file whose first `split` lines are on h.1: the block
\* [start, start + 1) of its sequence, coordinates restarting at 0 on h.2
NamedSeq(k, split) == IF k <= split THEN HG1 ELSE HG2
NamedStart(k, split) == IF k <= split THEN 2 * (k - 1) ELSE 2 * (k - split - 1)

NamedLine(k, split) ==
  Line("coord", <<T("A")>>,
       <<T("s"), T("0"), NamedSeq(k, split), ToDigits(NamedStart(k, split)),
         T("+"), T("9")>>)

NamedLayout(n, split, cuts) ==
  [j \in 1..(Cardinality(cuts) + 1) |->
     LET ks == Ascending(LinesOfBlock(j, n, cuts))
     IN [pos |-> (j - 1) * 10000, size |-> 10000,
         lines |-> (IF j = 1 THEN <<HeaderLine>> ELSE <<>>)
                   \o [i \in 1..Len(ks) |-> NamedLine(ks[i], split)]]]

\* the .tai file: one absolute row for each coordinate line
NamedTaiText(n, split, cuts) ==
  [k \in 1..n |->
     LET v == EntryOf(k, cuts, 10000).virtualOffset
     IN TaiRow(NamedSeq(k, split), ToDigits(NamedStart(k, split)),
               ToDigits(v.blockPosition * 65536 + v.dataPosition))]

NamedQueries ==
  {[refName |-> c, region |-> r] :
     c \in {<<"1">>, <<"2">>}, r \in {Region(0, 1), Region(0, 3), Region(2, 3)}}

InitNamed ==
  /\ \E n \in 2..MaxNamedLines :
       \E split \in 1..n, cuts \in SUBSET (1..(n - 1)) :
         /\ nmFile = NamedLayout(n, split, cuts)
         /\ nmIndex = readTaiFile(TaiState(<<>>, <<>>, 0, 0),
                                  NamedTaiText(n, split, cuts))
  /\ nmQuery \in NamedQueries
  /\ nmPair = <<>> /\ nmFeatures = <<>> /\ nmOut = <<>>
  /\ nmpc = "new"
  /\ TafIdle /\ NotNamedIdle

\* getLines finds no records for the refName: getFeatures completes
NamedNoRecords ==
  /\ nmpc = "new"
  /\ getLines(nmQuery.region, recordsOf(nmIndex, nmQuery.refName)) = <<>>
  /\ nmpc' = "done"
  /\ UNCHANGED <<nmFile, nmIndex, nmQuery, nmPair, nmFeatures, nmOut,
                 tafVars, notNamed>>

\* getLines looks the entries of the refName up and asks the cache
NamedLookUp ==
  /\ nmpc = "new"
  /\ getLines(nmQuery.region, recordsOf(nmIndex, nmQuery.refName)) # <<>>
  /\ nmPair' = getLines(nmQuery.region, recordsOf(nmIndex, nmQuery.refName))
  /\ nmpc' = "awaitFill"
  /\ UNCHANGED <<nmFile, nmIndex, nmQuery, nmFeatures, nmOut, tafVars,
                 notNamed>>

\* the fill: read, unzip, slice and parseTafBlocks
NamedFill ==
  /\ nmpc = "awaitFill"
  /\ nmFeatures' =
       parseTafBlocks(sliceOf(readAndUnzip(nmFile, nmPair[1]), nmPair[1]).lines,
                      FALSE)
  /\ nmpc' = "filled"
  /\ UNCHANGED <<nmFile, nmIndex, nmQuery, nmPair, nmOut, tafVars, notNamed>>

\* the for loop of getFeatures: each overlapping block is emitted with
\* refName: query.refName
NamedDeliver ==
  /\ nmpc = "filled"
  /\ nmOut' = [i \in 1..Len(deliverFeatures(nmFeatures, nmQuery.region)) |->
                 [refName |-> nmQuery.refName,
                  feat |-> deliverFeatures(nmFeatures, nmQuery.region)[i]]]
  /\ nmpc' = "done"
  /\ UNCHANGED <<nmFile, nmIndex, nmQuery, nmPair, nmFeatures, tafVars,
                 notNamed>>

NextNamed == NamedNoRecords \/ NamedLookUp \/ NamedFill \/ NamedDeliver

SpecNamed == InitNamed /\ [][NextNamed]_vars

\* C26: every block emitted for refName c has row 0 on sequence c.
C26_RowZeroOnQueriedSequence ==
  \A i \in 1..Len(nmOut) :
    LastPart(nmOut[i].feat.block.rows[1].sequenceName, ".") = nmOut[i].refName

----------------------------------------------------------------------------
(* SpecReplay: the loop of parseTafBlocks over a decoded slice, with the    *)
(* lines read so far kept in rpLines and the parser's local variables in    *)
(* rpState.                                                                 *)

MaxReplayLines == 3

InitReplay ==
  /\ rpRle \in BOOLEAN
  /\ rpLines = <<>> /\ rpState = ParserStart /\ rppc = "parsing"
  /\ TafIdle /\ NotReplayIdle

\* the loop body of parseTafBlocks on the next line of the slice
ReplayReadLine ==
  /\ rppc = "parsing" /\ Len(rpLines) < MaxReplayLines
  /\ \E line \in LinesOf(rpRle) :
       /\ rpLines' = Append(rpLines, line)
       /\ rpState' = parseTafLine(rpState, line, rpRle)
  /\ UNCHANGED <<rpRle, rppc, tafVars, notReplay>>

\* the slice is exhausted: the last block is finalized and the array returned
ReplayEnd ==
  /\ rppc = "parsing"
  /\ rpState' = [rpState EXCEPT !.features = parseTafEnd(rpState)]
  /\ rppc' = "parsed"
  /\ UNCHANGED <<rpRle, rpLines, tafVars, notReplay>>

NextReplay == ReplayReadLine \/ ReplayEnd

SpecReplay == InitReplay /\ [][NextReplay]_vars

\* the replay of every coordinate line: each one establishes its block from
\* the block of the coordinate line before it, whatever columns that block
\* has accumulated
replayLine(st, line, runLengthEncodeBases) ==
  IF line.kind = "coord"
    THEN LET pb == IF Len(st.currentBlock) > 0
                     THEN <<Flushed(st)>> ELSE st.pBlock
         IN [parseTafLine([st EXCEPT !.pBlock = pb, !.currentBlock = <<>>],
                          line, runLengthEncodeBases)
               EXCEPT !.features = <<>>]
    ELSE [parseTafLine(st, line, runLengthEncodeBases)
            EXCEPT !.features = <<>>]

RECURSIVE replayFrom(_, _, _, _)
replayFrom(st, lines, i, runLengthEncodeBases) ==
  IF i > Len(lines) THEN st
  ELSE replayFrom(replayLine(st, lines[i], runLengthEncodeBases), lines,
                  i + 1, runLengthEncodeBases)

\* C22: after any lines of a slice, the block established by the last
\* coordinate line is the one that the replay of every preceding coordinate
\* line establishes, coordinate lines whose block accumulated no column
\* included.
C22_EveryCoordinateLineReplayed ==
  rpState.currentBlock
    = replayFrom(ParserStart, rpLines, 1, rpRle).currentBlock

----------------------------------------------------------------------------
(* SpecEstablish: parseCoordinatesAndEstablishBlock and finalizeBlock on    *)
(* row objects.  esHeap holds the row objects that exist, a block's rows    *)
(* array is a sequence of their numbers: esPrev is pBlock (none, or a       *)
(* finalized block), esRows the rows array of the block being established.  *)
(* esCopyOf[id] is the row of pBlock that row id was copied from, 0 for     *)
(* none, and esLog lists the instructions folded so far with the row each   *)
(* one addressed.                                                           *)

MaxEstIns == 2

\* the object pushed for a row of pBlock
copiedRowSameStart(pRow) ==
  Row(pRow.sequenceName, pRow.start, pRow.strand, pRow.sequenceLength, <<>>, 0)

copiedRow(pRow) ==
  Row(pRow.sequenceName, pRow.start + pRow.length, pRow.strand,
      pRow.sequenceLength, <<>>, 0)

\* a copy loop that pushes the row objects of pBlock themselves
establishCopyShared(heap, pb) ==
  [heap |-> [id \in 1..Len(heap) |->
               IF Len(pb) > 0 /\ id \in Range(pb[1].rows)
                 THEN copiedRow(heap[id]) ELSE heap[id]],
   rows |-> IF Len(pb) = 0 THEN <<>> ELSE pb[1].rows]

\* the copy loop: one new object for every row of pBlock
establishCopy(heap, pb) ==
  IF Len(pb) = 0 THEN [heap |-> heap, rows |-> <<>>]
  ELSE [heap |-> heap \o [j \in 1..Len(pb[1].rows) |->
                            copiedRow(heap[pb[1].rows[j]])],
        rows |-> [j \in 1..Len(pb[1].rows) |-> Len(heap) + j]]

\* one iteration of the instruction loop: the heap and the rows array after
\* it, and the row it addressed (the new one for i, 0 for none)
foldInstruction(heap, rows, ins) ==
  IF ins.type = "i" THEN
    [heap |-> Append(heap, Row(ins.sequenceName, ins.start, ins.strand,
                               ins.sequenceLength, <<>>, 0)),
     rows |-> SpliceIn(rows, ins.row, Len(heap) + 1),
     id |-> Len(heap) + 1]
  ELSE IF ~HasRow(rows, ins.row) THEN [heap |-> heap, rows |-> rows, id |-> 0]
  ELSE LET id == rows[ins.row + 1] IN
    IF ins.type = "s" THEN
      [heap |-> [heap EXCEPT ![id] =
                   Row(ins.sequenceName, ins.start, ins.strand,
                       ins.sequenceLength, @.bases, @.length)],
       rows |-> rows, id |-> id]
    ELSE IF ins.type = "d" THEN
      [heap |-> heap, rows |-> SpliceOut(rows, ins.row), id |-> id]
    ELSE IF ins.type = "g" THEN
      [heap |-> [heap EXCEPT ![id].start = @ + ins.gapLength],
       rows |-> rows, id |-> id]
    ELSE IF ins.type = "G" THEN
      [heap |-> [heap EXCEPT ![id].start = @ + Len(ins.gapSubstring)],
       rows |-> rows, id |-> id]
    ELSE [heap |-> heap, rows |-> rows, id |-> 0]

\* finalizeBlock: bases and length are written into the row objects of the
\* block
finalizeRows(heap, rows, cols) ==
  [id \in 1..Len(heap) |->
     IF id \in Range(rows)
       THEN LET j == CHOOSE k \in 1..Len(rows) : rows[k] = id
                bases == TransposedRow(cols, j - 1)
            IN [heap[id] EXCEPT !.bases = bases,
                                !.length = CountNotDash(bases)]
       ELSE heap[id]]

\* the rows of a finalized previous block of two columns
PrevRowChoices ==
  {Row(HG1, 1, 1, 9, <<"A", "-">>, 1), Row(MM1, 4, 0 - 1, 9, <<"C", "A">>, 2)}

PrevBlocks == UNION {[1..n -> PrevRowChoices] : n \in 0..2}

\* the instruction fields of a coordinate line
EstFields ==
  {InsI("0", HG2, "0", "+", "9"), InsI("1", MM1, "7", "-", "9"),
   InsI("5", HG1, "3", "+", "9"),
   InsS("0", HG2, "5", "+", "9"), InsS("2", MM1, "6", "+", "9"),
   <<T("d"), T("0")>>, <<T("d"), T("1")>>, <<T("d"), T("2")>>,
   <<T("d"), T("3")>>,
   <<T("g"), T("0"), T("1")>>, <<T("g"), T("1"), T("2")>>,
   <<T("g"), T("4"), T("1")>>,
   <<T("G"), T("0"), <<"A", "A">>>>, <<T("G"), T("5"), <<"A">>>>}

RECURSIVE Concat(_)
Concat(groups) ==
  IF Len(groups) = 0 THEN <<>> ELSE Head(groups) \o Concat(Tail(groups))

\* the columns a block of n rows accumulates
EstColumns(n) ==
  {<<[j \in 1..n |-> "A"]>>, <<[j \in 1..n |-> "A"], [j \in 1..n |-> "-"]>>}

InitEstablish ==
  /\ \E hasPrev \in BOOLEAN, rows \in PrevBlocks :
       /\ hasPrev \/ rows = <<>>
       /\ esHeap = rows
       /\ esPrev = IF hasPrev THEN <<[rows |-> [j \in 1..Len(rows) |-> j]]>>
                   ELSE <<>>
  /\ \E n \in 0..MaxEstIns : \E groups \in [1..n -> EstFields] :
       esIns = parseRowInstructions(Concat(groups))
  /\ esCopyOf = [id \in 1..Len(esHeap) |-> 0]
  /\ esRows = <<>> /\ esNext = 1 /\ esLog = <<>>
  /\ espc = "start"
  /\ TafIdle /\ NotEstIdle

\* parseCoordinatesAndEstablishBlock up to the instruction loop
CopyPreviousRows ==
  /\ espc = "start"
  /\ LET r == establishCopy(esHeap, esPrev)
     IN /\ esHeap' = r.heap
        /\ esRows' = r.rows
        /\ esCopyOf' = [id \in 1..Len(r.heap) |->
                          IF id \in Range(r.rows) /\ Len(esPrev) > 0
                            THEN LET j == CHOOSE k \in 1..Len(r.rows) :
                                            r.rows[k] = id
                                 IN esPrev[1].rows[j]
                            ELSE 0]
  /\ espc' = "fold"
  /\ UNCHANGED <<esPrev, esIns, esNext, esLog, tafVars, notEst>>

\* one iteration of the instruction loop
FoldInstruction ==
  /\ espc = "fold" /\ esNext <= Len(esIns)
  /\ LET r == foldInstruction(esHeap, esRows, esIns[esNext])
     IN /\ esHeap' = r.heap
        /\ esRows' = r.rows
        /\ esCopyOf' = [id \in 1..Len(r.heap) |->
                          IF id <= Len(esCopyOf) THEN esCopyOf[id] ELSE 0]
        /\ esLog' = Append(esLog, [ins |-> esIns[esNext], id |-> r.id])
  /\ esNext' = esNext + 1
  /\ UNCHANGED <<esPrev, esIns, espc, tafVars, notEst>>

\* the block is returned, accumulates its columns and is finalized
FinalizeEstablished ==
  /\ espc = "fold" /\ esNext > Len(esIns)
  /\ \E cols \in EstColumns(Len(esRows)) :
       esHeap' = finalizeRows(esHeap, esRows, cols)
  /\ espc' = "final"
  /\ UNCHANGED <<esCopyOf, esPrev, esRows, esIns, esNext, esLog, tafVars,
                 notEst>>

NextEstablish == CopyPreviousRows \/ FoldInstruction \/ FinalizeEstablished

SpecEstablish == InitEstablish /\ [][NextEstablish]_vars

\* the row objects of pBlock
PrevIds == IF Len(esPrev) = 0 THEN {} ELSE Range(esPrev[1].rows)

\* the block as a value
RowsOf(heap, rows) == [j \in 1..Len(rows) |-> heap[rows[j]]]

\* the rows the instruction loop leaves are those of
\* parseCoordinatesAndEstablishBlock on the values of pBlock's rows
HeapAgreesWithValues ==
  (espc = "fold" /\ esNext > Len(esIns)) =>
    RowsOf(esHeap, esRows)
      = parseCoordinatesAndEstablishBlock(
          IF Len(esPrev) = 0 THEN <<>>
          ELSE <<[rows |-> RowsOf(esHeap, esPrev[1].rows)]>>,
          esIns).rows

\* the instructions of a type folded so far that addressed row id
Addressed(id, type) ==
  {k \in 1..Len(esLog) : esLog[k].id = id /\ esLog[k].ins.type = type}

\* what the g and G instructions among the first k log entries add to the
\* start of row id
RECURSIVE GapSum(_, _)
GapSum(id, k) ==
  IF k = 0 THEN 0
  ELSE GapSum(id, k - 1)
       + (IF esLog[k].id # id THEN 0
          ELSE IF esLog[k].ins.type = "g" THEN esLog[k].ins.gapLength
          ELSE IF esLog[k].ins.type = "G" THEN Len(esLog[k].ins.gapSubstring)
          ELSE 0)

\* the rows of the new block that were carried over from pBlock and not
\* redefined by an s instruction
CarriedOver ==
  {id \in Range(esRows) : esCopyOf[id] # 0 /\ Addressed(id, "s") = {}}

\* C23: a row carried over from the previous block starts at the previous
\* row's start plus the previous row's non-gap count, plus gapLength for
\* each g and the substring length for each G addressed to it; addressed by
\* no instruction it starts at previous start + previous non-gap count.
C23_CarriedRowStart ==
  espc \in {"fold", "final"} =>
    \A id \in CarriedOver :
      LET pRow == esHeap[esCopyOf[id]]
      IN /\ esHeap[id].start
              = pRow.start + CountNotDash(pRow.bases) + GapSum(id, Len(esLog))
         /\ (\A k \in 1..Len(esLog) : esLog[k].id # id)
              => esHeap[id].start = pRow.start + CountNotDash(pRow.bases)

\* a carried-over row of non-gap count 2 was advanced by a g and a G
C23_Witness ==
  /\ espc = "final"
  /\ \E id \in CarriedOver :
       /\ esHeap[esCopyOf[id]].length = 2
       /\ Addressed(id, "g") # {} /\ Addressed(id, "G") # {}
       /\ esHeap[id].start > esHeap[esCopyOf[id]].start + 2
  /\ \E id \in CarriedOver : \A k \in 1..Len(esLog) : esLog[k].id # id

\* the log entries of a type, and those among them that addressed a row
Folded(type) == {k \in 1..Len(esLog) : esLog[k].ins.type = type}
FoldedOnRow(type) == {k \in Folded(type) : esLog[k].id # 0}

\* the fields an i or s instruction states, as the row holds them
StatedBy(ins, row) ==
  /\ row.sequenceName = ins.sequenceName /\ row.start = ins.start
  /\ row.strand = ins.strand /\ row.sequenceLength = ins.sequenceLength

\* the effect of folding ins on the rows array and the row objects
FoldEffect(ins, heap, rows, heapAfter, rowsAfter) ==
  LET at == Min(ins.row, Len(rows))
      exists == ins.row >= 0 /\ ins.row < Len(rows)
      kept == \A id \in 1..Len(heap) : heapAfter[id] = heap[id]
  IN IF ins.type = "i" THEN
       /\ Len(rowsAfter) = Len(rows) + 1
       /\ rowsAfter[at + 1] \notin Range(rows)
       /\ StatedBy(ins, heapAfter[rowsAfter[at + 1]])
       /\ \A j \in 1..Len(rows) :
            IF j <= at THEN rowsAfter[j] = rows[j]
            ELSE rowsAfter[j + 1] = rows[j]
       /\ kept
     ELSE IF ~exists THEN rowsAfter = rows /\ heapAfter = heap
     ELSE IF ins.type = "d" THEN
       /\ Len(rowsAfter) = Len(rows) - 1
       /\ \A j \in 1..Len(rowsAfter) :
            IF j <= ins.row THEN rowsAfter[j] = rows[j]
            ELSE rowsAfter[j] = rows[j + 1]
       /\ heapAfter = heap
     ELSE IF ins.type = "s" THEN
       /\ rowsAfter = rows
       /\ StatedBy(ins, heapAfter[rows[ins.row + 1]])
       /\ heapAfter[rows[ins.row + 1]].bases = heap[rows[ins.row + 1]].bases
       /\ heapAfter[rows[ins.row + 1]].length = heap[rows[ins.row + 1]].length
       /\ \A id \in 1..Len(heap) :
            id # rows[ins.row + 1] => heapAfter[id] = heap[id]
     ELSE rowsAfter = rows

\* C24: i inserts a new row at its index and shifts the later rows down by
\* one, d removes the row at its index, s replaces name, start, strand and
\* size of the row at its index in place; s, d, g and G addressed to a row
\* that does not exist change nothing; and the row count is the previous
\* count plus the number of i minus the number of d that addressed a row.
C24_FoldEditsRowList ==
  /\ [](espc \in {"fold", "final"} =>
          Len(esRows) = Cardinality(PrevIds) + Cardinality(Folded("i"))
                          - Cardinality(FoldedOnRow("d")))
  /\ [][(espc = "fold" /\ esNext' = esNext + 1)
          => FoldEffect(esIns[esNext], esHeap, esRows, esHeap', esRows')]_vars

\* an i in the middle of two carried-over rows followed by a d of the row it
\* shifted
C24_Witness ==
  /\ espc = "final" /\ Cardinality(PrevIds) = 2 /\ Len(esLog) = 2
  /\ esLog[1].ins.type = "i" /\ esLog[1].ins.row = 1
  /\ esLog[2].ins.type = "d" /\ esLog[2].ins.row = 2
  /\ esCopyOf[esLog[2].id] # 0
  /\ Len(esRows) = 2 /\ esRows[2] = esLog[1].id

\* C25: establishing and finalizing the new block leaves the rows array of
\* pBlock and every field of its row objects as they were, and no row object
\* belongs to both blocks.
C25_PreviousBlockUntouched ==
  /\ [](Range(esRows) \cap PrevIds = {})
  /\ [][/\ esPrev' = esPrev
        /\ \A id \in PrevIds : esHeap'[id] = esHeap[id]]_vars

\* the new block was established from a previous block of two rows, kept a
\* copy of one, had its start advanced, and was finalized with other bases
C25_Witness ==
  /\ espc = "final" /\ Cardinality(PrevIds) = 2
  /\ \E id \in Range(esRows) :
       /\ esCopyOf[id] # 0
       /\ Addressed(id, "g") # {}
       /\ esHeap[id].bases # esHeap[esCopyOf[id]].bases
       /\ esHeap[id].start # esHeap[esCopyOf[id]].start

====
